---- MODULE Spec2Model ----
(***************************************************************************)
(* A model of mnkagent: the m,n,k-game board (grid and bitboard            *)
(* implementations), the tabular Q-learning agent and the round driver.    *)
(*                                                                         *)
(* SpecBoard drives the two board implementations in lockstep through      *)
(* their public operations (Act, Reset) on a set of small boards.          *)
(* Spec drives main.go's training loop: newRound with two RL agents that   *)
(* share one value table, on the grid board; SpecWide, SpecFair and        *)
(* SpecInterrupt are the same loop on a wider board, with the driver's     *)
(* progress assumed, and with SIGINT arriving. SpecSetup follows the maps  *)
(* the two agents and the Knowledge refer to from construction to save.    *)
(* SpecPlay is play mode (a human against one RL agent), SpecConstruct     *)
(* the board constructors, SpecCalls single calls of a board's methods,    *)
(* SpecPair two boards driven independently, and SpecSnapshot the grid     *)
(* and the snapshots GetState returns as slices over a heap of rows.       *)
(* SpecRounds is single rounds on boards with a draw, SpecTurns the choice *)
(* of who starts the next round in either build of train, SpecLoad main's  *)
(* loading of the model file before the agents are built, SpecAuto a round *)
(* on the board CreateBoard makes for board type Auto, SpecIterate the     *)
(* iteration over FindNonEmptyPosition, and SpecBuffer an ExperienceBuffer *)
(* under Add and Clear.                                                    *)
(***************************************************************************)
EXTENDS Integers, Sequences, FiniteSets, TLC

VARIABLES
    terminateFlag, \* main's terminateFlag, set by the SIGINT goroutine
    modelFile,  \* what cfg.RL.ModelFile holds: the last knowledge saved
    mem,        \* the heap: the maps allocated for value tables and who
                \* refers to which (SpecSetup); the row arrays of the
                \* grid and of its snapshots (SpecSnapshot); the
                \* ExperienceBuffer (SpecBuffer)
    twin,       \* a second pair of boards, built like board and bb and
                \* driven by calls of its own (SpecPair)
    cfg,        \* [m, n, k]: board width, height and run length; in a
                \* run of main also [rounds, noLearn, allNoLearn]: the
                \* number of rounds, cfg.RL.NoLearn (-rl-no-learn) and
                \* cfg.NoLearn (-no-learn)
    board,      \* MNKBoard.board: board[y][x] in 0..2
    bb,         \* MNKBitboard: [bits, moveCount, lastMove]
    res,        \* what the last board operation returned (SpecBoard)
    pc,         \* the driver's position in train/newRound
    round,      \* train's loop counter c
    turn,       \* newRound's turn (the player to move)
    startTurn,  \* train's turn variable (who starts the next round)
    pending,    \* the action FetchMove returned, not yet passed to Act
    values,     \* RLAgentKnowledge.Values: marshalled key -> value
    iterations, \* RLAgentKnowledge.Iterations
    prev,       \* prev[id]: RLAgent.prev, the previous-transition buffer
    goLeft,     \* agents the driver's GameOver loop has not notified yet
    outcome,    \* newRound's return value once the round has ended
    obs         \* what the last agent/driver step did (locals made visible)

sysVars == <<terminateFlag, modelFile, mem, twin>>
boardVars == <<cfg, board, bb, res>>
gameVars == <<pc, round, turn, startTurn, pending, values, iterations, prev,
              goLeft, outcome, obs>>
vars == <<terminateFlag, modelFile, mem, twin, cfg, board, bb, res, pc, round, turn,
          startTurn, pending, values,
          iterations, prev, goLeft, outcome, obs>>

-----------------------------------------------------------------------------
(* Board configurations <<m, n, k>> the board specification ranges over:   *)
(* square and non-square, k = m, k = n, k < both, and k = 1.               *)
BoardConfigs ==
    { <<3, 3, 3>>, <<4, 2, 3>>, <<2, 3, 2>>, <<4, 1, 3>>, <<2, 2, 1>> }

Players == {1, 2}

Min(a, b) == IF a < b THEN a ELSE b

Xs(c) == 0 .. (c.m - 1)
Ys(c) == 0 .. (c.n - 1)

\* MNKAction{X, Y} values inside the grid.
Cells(c) == [x : Xs(c), y : Ys(c)]

\* Actions callers may pass to Act: every cell, and one action beyond each
\* of the four edges.
AnyActions(c) ==
    Cells(c) \cup { [x |-> -1, y |-> 0], [x |-> c.m, y |-> 0],
                    [x |-> 0, y |-> -1], [x |-> 0, y |-> c.n] }

-----------------------------------------------------------------------------
(* MNKBoard: the grid implementation.                                      *)

\* NewMNKBoard / NewMNKBitboard: the constructor's parameter check.
ConstructionFails(m, n, k) == k > m /\ k > n

\* MNKBoard.Reset: n rows of m zeros.
EmptyBoard(c) == [y \in Ys(c) |-> [x \in Xs(c) |-> 0]]

\* The same walk taken column by column.
RECURSIVE PotentialColumnMajor(_, _, _)
PotentialColumnMajor(c, b, pos) ==
    IF pos >= c.m * c.n THEN <<>>
    ELSE LET x == pos \div c.n
             y == pos % c.n
         IN (IF b[y][x] = 0 THEN <<[x |-> x, y |-> y]>> ELSE <<>>)
            \o PotentialColumnMajor(c, b, pos + 1)

\* MNKBoard.GetPotentialActions: the empty cells, row by row.
RECURSIVE PotentialFrom(_, _, _)
PotentialFrom(c, b, pos) ==
    IF pos >= c.m * c.n THEN <<>>
    ELSE LET y == pos \div c.m
             x == pos % c.m
         IN (IF b[y][x] = 0 THEN <<[x |-> x, y |-> y]>> ELSE <<>>)
            \o PotentialFrom(c, b, pos + 1)

GetPotentialActions(c, b) == PotentialFrom(c, b, 0)

\* The closing loops of Evaluate and EvaluateAction: is any cell empty?
HasEmpty(c, b) == \E y \in Ys(c) : \E x \in Xs(c) : b[y][x] = 0

\* d |= bit, for bit in {2, 4} and d in {0, 2, 4, 6}.
OrBit(d, bit) == IF (d \div bit) % 2 = 1 THEN d ELSE d + bit

\* The four axis loops of MNKBoard.EvaluateAction. Each loop tests the cell
\* i steps away in one sense ("fwd", the first if) and in the other ("bwd",
\* the second if), with exactly the bounds tests the source writes.
FwdHit(c, b, p, a, axis, i) ==
    CASE axis = "row"  -> a.x + i < c.m /\ b[a.y][a.x + i] = p
      [] axis = "col"  -> a.y + i < c.n /\ b[a.y + i][a.x] = p
      [] axis = "tlbr" -> a.x + i < c.m /\ a.y + i < c.n
                          /\ b[a.y + i][a.x + i] = p
      [] axis = "trbl" -> a.x - i >= 0 /\ a.y + i < c.n
                          /\ b[a.y + i][a.x - i] = p

BwdHit(c, b, p, a, axis, i) ==
    CASE axis = "row"  -> a.x - i >= 0 /\ b[a.y][a.x - i] = p
      [] axis = "col"  -> a.y - i >= 0 /\ b[a.y - i][a.x] = p
      [] axis = "tlbr" -> a.x - i >= 0 /\ a.y - i >= 0
                          /\ b[a.y - i][a.x - i] = p
      [] axis = "trbl" -> a.x + i < c.m /\ a.y - i >= 0
                          /\ b[a.y - i][a.x + i] = p

\* for i, c, d := 1, 1, 0; i < b.k && d < 6; i++ { ... if c >= b.k return 1 }
\* TRUE when the loop returns 1.
RECURSIVE AxisLoop(_, _, _, _, _, _, _, _)
AxisLoop(c, b, p, a, axis, i, cnt, d) ==
    IF ~(i < c.k /\ d < 6) THEN FALSE
    ELSE LET f  == FwdHit(c, b, p, a, axis, i)
             c1 == IF f THEN cnt + 1 ELSE cnt
             d1 == IF f THEN d ELSE OrBit(d, 2)
             g  == BwdHit(c, b, p, a, axis, i)
             c2 == IF g THEN c1 + 1 ELSE c1
             d2 == IF g THEN d1 ELSE OrBit(d1, 4)
         IN IF c2 >= c.k THEN TRUE
            ELSE AxisLoop(c, b, p, a, axis, i + 1, c2, d2)

Axes == <<"row", "col", "tlbr", "trbl">>

\* MNKBoard.EvaluateAction(agentID, action) on grid b: 1, 0 or -1.
EvaluateAction(c, b, p, a) ==
    IF \E t \in 1 .. 4 : AxisLoop(c, b, p, a, Axes[t], 1, 1, 0) THEN 1
    ELSE IF HasEmpty(c, b) THEN 0
    ELSE -1

\* The six scans of MNKBoard.Evaluate, in source order. OuterFirst..OuterLast
\* is the range of the outer loop variable o; for each o the inner loop
\* compares the cell at inner index i against the cell at i + 1.
Scans == <<"rows", "cols", "tlbrUpper", "tlbrLower", "trblUpper", "trblLower">>

OuterFirst(c, scan) ==
    IF scan \in {"tlbrLower", "trblLower"} THEN 1 ELSE 0

OuterLast(c, scan) ==
    CASE scan = "rows" -> c.n - 1
      [] scan = "cols" -> c.m - 1
      [] scan \in {"tlbrUpper", "trblUpper"} -> c.m - c.k
      [] scan \in {"tlbrLower", "trblLower"} -> c.n - c.k

\* How many inner iterations the scan runs for outer value o.
Comparisons(c, scan, o) ==
    CASE scan = "rows" -> c.m - 1
      [] scan = "cols" -> c.n - 1
      [] scan \in {"tlbrUpper", "trblUpper"} -> Min(c.m - o - 1, c.n - 1)
      [] scan \in {"tlbrLower", "trblLower"} -> Min(c.m - 1, c.n - o - 1)

\* The cell the inner loop reads at inner index i (its left operand; the
\* right operand is the cell at i + 1).
LineCell(c, scan, o, i) ==
    CASE scan = "rows"      -> <<o, i>>
      [] scan = "cols"      -> <<i, o>>
      [] scan = "tlbrUpper" -> <<i, o + i>>
      [] scan = "tlbrLower" -> <<o + i, i>>
      [] scan = "trblUpper" -> <<i, c.m - o - i - 1>>
      [] scan = "trblLower" -> <<i + o, c.m - i - 1>>

At(b, cell) == b[cell[1]][cell[2]]

\* The inner loop: cnt is the running counter c of the source; the result is
\* the id the loop returns, or 0 when it runs to its end.
RECURSIVE InnerLoop(_, _, _, _, _, _)
InnerLoop(c, b, scan, o, i, cnt) ==
    IF i >= Comparisons(c, scan, o) THEN 0
    ELSE LET here == At(b, LineCell(c, scan, o, i))
             next == At(b, LineCell(c, scan, o, i + 1))
         IN IF here = next
            THEN IF cnt + 1 >= c.k /\ here > 0 THEN here
                 ELSE InnerLoop(c, b, scan, o, i + 1, cnt + 1)
            ELSE InnerLoop(c, b, scan, o, i + 1, 1)

\* The outer loop of one scan, from outer value o on.
RECURSIVE OuterLoop(_, _, _, _)
OuterLoop(c, b, scan, o) ==
    IF o > OuterLast(c, scan) THEN 0
    ELSE LET r == InnerLoop(c, b, scan, o, 0, 1)
         IN IF r # 0 THEN r ELSE OuterLoop(c, b, scan, o + 1)

RECURSIVE ScanFrom(_, _, _)
ScanFrom(c, b, t) ==
    IF t > Len(Scans) THEN 0
    ELSE LET r == OuterLoop(c, b, Scans[t], OuterFirst(c, Scans[t]))
         IN IF r # 0 THEN r ELSE ScanFrom(c, b, t + 1)

\* MNKBoard.Evaluate(): the winner's id, -1 for a draw, 0 to continue.
Evaluate(c, b) ==
    LET w == ScanFrom(c, b, 1)
    IN IF w # 0 THEN w
       ELSE IF HasEmpty(c, b) THEN 0
       ELSE -1

\* The reward Act derives from EvaluateAction's result, in halves:
\* +1 -> 2, 0 -> 0, -0.5 -> -1.
RewardOf(ea) ==
    CASE ea = 1  -> 2
      [] ea = 0  -> 0
      [] ea = -1 -> -1
      [] OTHER   -> 0

\* MNKBoard.Act's two validity tests.
OutOfRange(c, a) == a.x < 0 \/ a.x >= c.m \/ a.y < 0 \/ a.y >= c.n

Occupied(b, a) == b[a.y][a.x] # 0

\* The assignment as it would be with the column index alone: the mark
\* lands in column a.X of every row.
PlaceInColumn(b, p, a) == [y \in DOMAIN b |-> [b[y] EXCEPT ![a.x] = p]]

\* The grid after b.board[a.Y][a.X] = agentID.
Place(b, p, a) == [b EXCEPT ![a.y][a.x] = p]

\* Act as it would be without the test for an occupied cell: the mark is
\* placed over whatever the cell holds.
ActOverwriting(c, b, p, a) ==
    IF OutOfRange(c, a) THEN [err |-> "range", reward |-> 0, board |-> b]
    ELSE [err |-> "none",
          reward |-> RewardOf(EvaluateAction(c, Place(b, p, a), p, a)),
          board |-> Place(b, p, a)]

\* MNKBoard.Act(agentID, action): [err, reward, board].
Act(c, b, p, a) ==
    IF OutOfRange(c, a) THEN [err |-> "range", reward |-> 0, board |-> b]
    ELSE IF Occupied(b, a) THEN [err |-> "invalid", reward |-> 0, board |-> b]
    ELSE LET nb == Place(b, p, a)
         IN [err |-> "none",
             reward |-> RewardOf(EvaluateAction(c, nb, p, a)),
             board |-> nb]

-----------------------------------------------------------------------------
(* MNKBitboard: one bitmap per player, modelled as the set of bit          *)
(* positions that are set (position y*m + x, always below 64 here).        *)

Pos(c, x, y) == y * c.m + x

\* MNKBitboard.Reset.
EmptyBitboard ==
    [bits |-> [p \in 0 .. 2 |-> {}],
     moveCount |-> 0,
     lastMove |-> [playerID |-> 0, x |-> -1, y |-> -1]]

\* occupied |= playerBits, over all players.
OccupiedBits(s) == UNION { s.bits[p] : p \in 0 .. 2 }

\* MNKBitboard.GetPotentialActions.
RECURSIVE BitPotentialFrom(_, _, _)
BitPotentialFrom(c, s, pos) ==
    IF pos >= c.m * c.n THEN <<>>
    ELSE (IF pos \notin OccupiedBits(s)
          THEN <<[x |-> pos % c.m, y |-> pos \div c.m]>> ELSE <<>>)
         \o BitPotentialFrom(c, s, pos + 1)

BitGetPotentialActions(c, s) == BitPotentialFrom(c, s, 0)

\* Direction deltas of countInDirection: <<dx1, dy1, dx2, dy2>>.
Deltas(direction) ==
    CASE direction = "Horizontal"   -> <<-1, 0, 1, 0>>
      [] direction = "Vertical"     -> <<0, -1, 0, 1>>
      [] direction = "DiagonalTLBR" -> <<-1, -1, 1, 1>>
      [] direction = "DiagonalTRBL" -> <<1, -1, -1, 1>>

Directions == {"Horizontal", "Vertical", "DiagonalTLBR", "DiagonalTRBL"}

\* One counting loop of countInDirection: for i := 1; i < b.k; i++, leaving
\* at the first cell out of bounds or without the player's bit.
RECURSIVE CountSense(_, _, _, _, _, _, _)
CountSense(c, playerBits, x, y, dx, dy, i) ==
    IF i >= c.k THEN 0
    ELSE LET nx == x + i * dx
             ny == y + i * dy
         IN IF nx < 0 \/ nx >= c.m \/ ny < 0 \/ ny >= c.n THEN 0
            ELSE IF Pos(c, nx, ny) \in playerBits
                 THEN 1 + CountSense(c, playerBits, x, y, dx, dy, i + 1)
                 ELSE 0

countInDirection(c, playerBits, x, y, direction) ==
    LET d == Deltas(direction)
    IN 1 + CountSense(c, playerBits, x, y, d[1], d[2], 1)
         + CountSense(c, playerBits, x, y, d[3], d[4], 1)

checkWin(c, playerBits, x, y) ==
    \E direction \in Directions :
        countInDirection(c, playerBits, x, y, direction) >= c.k

\* MNKBitboard.EvaluateAction: the bit is set for the test and restored.
BitEvaluateAction(c, s, p, a) ==
    LET tmp == s.bits[p] \cup {Pos(c, a.x, a.y)}
    IN IF checkWin(c, tmp, a.x, a.y) THEN 1
       ELSE IF s.moveCount + 1 = c.m * c.n THEN -1
       ELSE 0

\* MNKBitboard.EvaluateAction with the temporary move left in place.
BitEvaluateActionKeeps(c, s, p, a) ==
    [s EXCEPT !.bits[p] = @ \cup {Pos(c, a.x, a.y)}]

\* The bitboard MNKBitboard.EvaluateAction leaves behind: the bit is set
\* in the player's bitmap for the test, then the bitmap is put back.
BitEvaluateActionLeaves(c, s, p, a) ==
    LET oldBits == s.bits[p]
        tried == [s EXCEPT !.bits[p] = @ \cup {Pos(c, a.x, a.y)}]
    IN [tried EXCEPT !.bits[p] = oldBits]

\* MNKBitboard.Evaluate.
BitEvaluate(c, s) ==
    IF s.moveCount = 0 THEN 0
    ELSE IF checkWin(c, s.bits[s.lastMove.playerID], s.lastMove.x, s.lastMove.y)
         THEN s.lastMove.playerID
    ELSE IF s.moveCount = c.m * c.n THEN -1
    ELSE 0

\* MNKBitboard.Act(agentID, action): [err, reward, bb].
BitAct(c, s, p, a) ==
    IF OutOfRange(c, a) THEN [err |-> "range", reward |-> 0, bb |-> s]
    ELSE IF Pos(c, a.x, a.y) \in OccupiedBits(s)
         THEN [err |-> "invalid", reward |-> 0, bb |-> s]
    ELSE LET ns == [bits |-> [s.bits EXCEPT ![p] = @ \cup {Pos(c, a.x, a.y)}],
                    moveCount |-> s.moveCount + 1,
                    lastMove |-> [playerID |-> p, x |-> a.x, y |-> a.y]]
         IN [err |-> "none",
             reward |-> RewardOf(BitEvaluateAction(c, ns, p, a)),
             bb |-> ns]

\* The grid a BitboardState stands for (game.ConvertMNKStateToString's
\* decoding: player 1's bits, then player 2's).
BitGrid(c, s) ==
    [y \in Ys(c) |-> [x \in Xs(c) |->
        IF Pos(c, x, y) \in s.bits[2] THEN 2
        ELSE IF Pos(c, x, y) \in s.bits[1] THEN 1
        ELSE 0]]

-----------------------------------------------------------------------------
\* GetPotentialActions(agentID) as its callers see it: the parameter is
\* accepted and not read, by either implementation.
GetPotentialActionsFor(c, b, agentID) == GetPotentialActions(c, b)

BitGetPotentialActionsFor(c, s, agentID) == BitGetPotentialActions(c, s)

(* SpecBoard: both boards built with the same m, n, k and driven by the    *)
(* same calls. Callers take turns as the driver's players do (either       *)
(* player may open after construction or Reset), and may go on placing     *)
(* marks after a run of k exists.                                          *)

Config(t) == [m |-> t[1], n |-> t[2], k |-> t[3]]

\* What the caller handed to Act, seen from outside the board.
InputClass(c, b, a) ==
    IF ~(a.x \in Xs(c) /\ a.y \in Ys(c)) THEN "outside"
    ELSE IF b[a.y][a.x] # 0 THEN "taken"
    ELSE "free"

\* The driver and both agents at rest (SpecBoard never moves them).
GameIdle ==
    /\ terminateFlag = FALSE
    /\ modelFile = [written |-> FALSE]
    /\ mem = [at |-> "none"]
    /\ twin = [at |-> "none"]
    /\ pc = "idle"
    /\ round = 0
    /\ turn = 0
    /\ startTurn = 0
    /\ pending = [x |-> -1, y |-> -1]
    /\ values = <<>>
    /\ iterations = 0
    /\ prev = <<>>
    /\ goLeft = {}
    /\ outcome = 0
    /\ obs = [op |-> "none"]

InitBoard ==
    /\ \E t \in BoardConfigs :
          /\ ~ConstructionFails(t[1], t[2], t[3])
          /\ cfg = Config(t)
    /\ board = EmptyBoard(cfg)
    /\ bb = EmptyBitboard
    /\ res = [op |-> "New"]
    /\ GameIdle

\* One Act(agentID, action) call on each board, with what each returned and
\* what EvaluateAction said just before the call.
BoardAct(p, a) ==
    LET g == Act(cfg, board, p, a)
        h == BitAct(cfg, bb, p, a)
        in == InputClass(cfg, board, a)
    IN /\ board' = g.board
       /\ bb' = h.bb
       /\ res' = IF in = "free"
                 THEN [op |-> "Act", input |-> in, agent |-> p, a |-> a,
                       err |-> g.err, reward |-> g.reward,
                       errB |-> h.err, rewardB |-> h.reward,
                       before |-> EvaluateAction(cfg, board, p, a),
                       beforeB |-> BitEvaluateAction(cfg, bb, p, a)]
                 ELSE [op |-> "Act", input |-> in,
                       err |-> g.err, reward |-> g.reward,
                       errB |-> h.err, rewardB |-> h.reward]
       /\ UNCHANGED <<sysVars, cfg, pc, round, turn, startTurn, pending, values,
                      iterations, prev, goLeft, outcome, obs>>

BoardActStep ==
    \E p \in Players : \E a \in AnyActions(cfg) :
        /\ p # bb.lastMove.playerID
        /\ BoardAct(p, a)

\* Reset() on each board.
BoardReset ==
    /\ res.op # "New"
    /\ board' = EmptyBoard(cfg)
    /\ bb' = EmptyBitboard
    /\ res' = [op |-> "Reset"]
    /\ UNCHANGED <<sysVars, cfg, pc, round, turn, startTurn, pending, values,
                   iterations, prev, goLeft, outcome, obs>>

NextBoard == BoardActStep \/ BoardReset

SpecBoard == InitBoard /\ [][NextBoard]_vars

-----------------------------------------------------------------------------
(* SpecCalls: single calls of a board's methods, the queries included.    *)
(* Build "game" is package game (MNKBoard and MNKBitboard side by side);  *)
(* build "main" is the package-main MNKBoard of part_000.                 *)

CallConfigs == { <<2, 2, 2>>, <<3, 1, 2>>, <<3, 2, 2>> }

BoardBuilds == {"game", "main"}

\* part_000's Act: past the range test it reads and writes the
\* package-level board, never the receiver's, and returns b.Evaluate,
\* which panics. The outcomes a call can have; the receiver's grid is the
\* same after each.
main_Act(c, b, p, a) ==
    IF OutOfRange(c, a) THEN {[err |-> "range", reward |-> 0, board |-> b]}
    ELSE {[err |-> "invalid", reward |-> 0, board |-> b],
          [err |-> "panic", reward |-> 0, board |-> b]}

\* What stands for a call that panics instead of returning a result.
Panicked == -2

\* part_000's Evaluate: panic("environment.Evaluate: Not Implemented.").
main_Evaluate(c, b) == Panicked

\* part_000's Reset: "b, _ = NewMNKBoard(b.m, b.n, b.k)" gives the method's
\* own copy of the pointer a new board; the receiver keeps its grid.
main_Reset(c, b) == b

\* part_000's GetActions.
main_GetActions(c, b) == PotentialFrom(c, b, 0)

InitCalls ==
    /\ \E t \in CallConfigs : \E build \in BoardBuilds :
          /\ ~ConstructionFails(t[1], t[2], t[3])
          /\ cfg = [m |-> t[1], n |-> t[2], k |-> t[3], build |-> build]
    /\ board = EmptyBoard(cfg)
    /\ bb = EmptyBitboard
    /\ res = [op |-> "New"]
    /\ GameIdle

\* Act(agentID, action) with a cell of the board.
CallAct ==
    /\ \E p \in Players : \E a \in Cells(cfg) :
          IF cfg.build = "main"
          THEN \E g \in main_Act(cfg, board, p, a) :
                  /\ board' = g.board
                  /\ bb' = bb
                  /\ res' = [op |-> "Act", err |-> g.err]
          ELSE /\ p # bb.lastMove.playerID
               /\ board' = Act(cfg, board, p, a).board
               /\ bb' = BitAct(cfg, bb, p, a).bb
               /\ res' = [op |-> "Act", err |-> Act(cfg, board, p, a).err]
    /\ UNCHANGED <<sysVars, cfg, gameVars>>

\* Reset().
CallReset ==
    /\ res.op # "Reset"
    /\ board' = IF cfg.build = "main" THEN main_Reset(cfg, board)
                ELSE EmptyBoard(cfg)
    /\ bb' = EmptyBitboard
    /\ res' = [op |-> "Reset"]
    /\ UNCHANGED <<sysVars, cfg, gameVars>>

\* Evaluate(): no statement of either implementation assigns to the board.
CallEvaluate ==
    /\ res' = [op |-> "Evaluate",
               result |-> IF cfg.build = "main"
                          THEN main_Evaluate(cfg, board)
                          ELSE Evaluate(cfg, board),
               resultB |-> BitEvaluate(cfg, bb)]
    /\ UNCHANGED <<sysVars, cfg, board, bb, gameVars>>

\* EvaluateAction(agentID, action) for any cell, empty or taken.
CallEvaluateAction ==
    /\ cfg.build = "game"
    /\ \E p \in Players : \E a \in Cells(cfg) :
          /\ bb' = BitEvaluateActionLeaves(cfg, bb, p, a)
          /\ res' = [op |-> "EvaluateAction", agent |-> p, a |-> a,
                     result |-> EvaluateAction(cfg, board, p, a),
                     resultB |-> BitEvaluateAction(cfg, bb, p, a)]
    /\ UNCHANGED <<sysVars, cfg, board, gameVars>>

NextCalls ==
    \/ CallAct
    \/ CallReset
    \/ CallEvaluate
    \/ CallEvaluateAction

SpecCalls == InitCalls /\ [][NextCalls]_vars

-----------------------------------------------------------------------------

(* SpecPair: two boards of each implementation, built with the same m, n, *)
(* k and receiving Act calls independently of each other.                 *)

PairConfigs == { <<2, 2, 2>>, <<3, 1, 2>> }

InitPair ==
    /\ \E t \in PairConfigs :
          /\ ~ConstructionFails(t[1], t[2], t[3])
          /\ cfg = Config(t)
    /\ board = EmptyBoard(cfg)
    /\ bb = EmptyBitboard
    /\ res = [op |-> "New"]
    /\ terminateFlag = FALSE
    /\ modelFile = [written |-> FALSE]
    /\ mem = [at |-> "none"]
    /\ twin = [at |-> "pair", board |-> EmptyBoard(cfg), bb |-> EmptyBitboard]
    /\ pc = "idle"
    /\ round = 0
    /\ turn = 0
    /\ startTurn = 0
    /\ pending = [x |-> -1, y |-> -1]
    /\ values = <<>>
    /\ iterations = 0
    /\ prev = <<>>
    /\ goLeft = {}
    /\ outcome = 0
    /\ obs = [op |-> "none"]

\* Act on the first pair of boards (callers take turns on each board).
PairActFirst ==
    /\ \E p \in Players : \E a \in Cells(cfg) :
          /\ p # bb.lastMove.playerID
          /\ Act(cfg, board, p, a).err = "none"
          /\ board' = Act(cfg, board, p, a).board
          /\ bb' = BitAct(cfg, bb, p, a).bb
          /\ res' = [op |-> "Act", on |-> "first", agent |-> p, a |-> a]
    /\ UNCHANGED <<terminateFlag, modelFile, mem, twin, cfg, gameVars>>

\* Act on the second pair.
PairActTwin ==
    /\ \E p \in Players : \E a \in Cells(cfg) :
          /\ p # twin.bb.lastMove.playerID
          /\ Act(cfg, twin.board, p, a).err = "none"
          /\ twin' = [twin EXCEPT !.board = Act(cfg, twin.board, p, a).board,
                                  !.bb = BitAct(cfg, twin.bb, p, a).bb]
          /\ res' = [op |-> "Act", on |-> "twin", agent |-> p, a |-> a]
    /\ UNCHANGED <<terminateFlag, modelFile, mem, cfg, board, bb, gameVars>>

NextPair == PairActFirst \/ PairActTwin

SpecPair == InitPair /\ [][NextPair]_vars

-----------------------------------------------------------------------------

(* SpecSnapshot: MNKBoard's grid as Go lays it out, a slice of row        *)
(* slices. mem.rows maps the address of each row array to its contents,   *)
(* mem.grid is b.board (the row addresses, top row first) and mem.snaps   *)
(* the snapshots GetState returned that the caller still holds. board is  *)
(* the grid read through mem.grid.                                        *)

\* How many snapshots the caller holds at a time.
MaxSnapshots == 2

\* One row of two cells, and two rows of one cell.
SnapshotConfigs == { <<2, 1, 2>>, <<1, 2, 2>> }

\* The cnt lowest addresses from `from` on that are not in use.
RECURSIVE FreshFrom(_, _, _)
FreshFrom(used, from, cnt) ==
    IF cnt = 0 THEN <<>>
    ELSE IF from \in used THEN FreshFrom(used, from + 1, cnt)
    ELSE <<from>> \o FreshFrom(used \cup {from}, from + 1, cnt - 1)

\* rows with the arrays at addresses at[1 .. Len(at)] added, the i-th
\* holding contents[i].
Allocated(rows, at, contents) ==
    [ad \in DOMAIN rows \cup {at[i] : i \in 1 .. Len(at)} |->
        IF \E i \in 1 .. Len(at) : at[i] = ad
        THEN contents[CHOOSE i \in 1 .. Len(at) : at[i] = ad]
        ELSE rows[ad]]

\* The grid the slice s of row addresses stands for.
Deref(rows, s) == [y \in 0 .. Len(s) - 1 |-> rows[s[y + 1]]]

\* A copy of the outer slice alone: the copy's rows are the original's.
CloneShallow(rows, s) == [rows |-> rows, snap |-> s]

\* MNKState.Clone: a new outer slice and, for each row, a new array with
\* the row copied into it. [rows, snap]: the memory after the call and the
\* slice returned.
Clone(rows, s) ==
    LET at == FreshFrom(DOMAIN rows, 1, Len(s))
    IN [rows |-> Allocated(rows, at, [i \in 1 .. Len(s) |-> rows[s[i]]]),
        snap |-> at]

\* All the row addresses the slices hold, b.board's first.
RECURSIVE Flat(_)
Flat(snaps) == IF snaps = <<>> THEN <<>> ELSE Head(snaps) \o Flat(Tail(snaps))

\* An address has no meaning beyond which array it names: arrays are
\* numbered in the order in which refs first mentions them.
Renumbered(refs, ad) ==
    LET first == CHOOSE i \in 1 .. Len(refs) :
                     refs[i] = ad /\ \A j \in 1 .. i - 1 : refs[j] # ad
    IN Cardinality({refs[j] : j \in 1 .. first})

\* Garbage collection: the arrays no slice refers to are gone, the others
\* renumbered.
Collected(rows, refs) ==
    LET live == {refs[i] : i \in 1 .. Len(refs)}
    IN [k \in 1 .. Cardinality(live) |->
           rows[CHOOSE ad \in live : Renumbered(refs, ad) = k]]

\* The heap after a step, and the board read through it.
Heap(rows, grid, snaps) ==
    LET refs == grid \o Flat(snaps)
    IN /\ mem' = [at |-> "heap",
                  rows |-> Collected(rows, refs),
                  grid |-> [i \in 1 .. Len(grid) |->
                               Renumbered(refs, grid[i])],
                  snaps |-> [j \in 1 .. Len(snaps) |->
                                [i \in 1 .. Len(snaps[j]) |->
                                    Renumbered(refs, snaps[j][i])]]]
       /\ board' = Deref(rows, grid)

InitSnapshot ==
    /\ \E t \in SnapshotConfigs :
          /\ ~ConstructionFails(t[1], t[2], t[3])
          /\ cfg = Config(t)
    /\ board = EmptyBoard(cfg)
    /\ bb = EmptyBitboard
    /\ res = [op |-> "New", last |-> <<>>, modified |-> FALSE]
    /\ mem = [at |-> "heap",
              rows |-> [ad \in 1 .. cfg.n |-> [x \in Xs(cfg) |-> 0]],
              grid |-> [i \in 1 .. cfg.n |-> i],
              snaps |-> <<>>]
    /\ terminateFlag = FALSE
    /\ modelFile = [written |-> FALSE]
    /\ twin = [at |-> "none"]
    /\ pc = "idle"
    /\ round = 0
    /\ turn = 0
    /\ startTurn = 0
    /\ pending = [x |-> -1, y |-> -1]
    /\ values = <<>>
    /\ iterations = 0
    /\ prev = <<>>
    /\ goLeft = {}
    /\ outcome = 0
    /\ obs = [op |-> "none"]

\* A successful Act: b.board[a.Y][a.X] = agentID writes the row in place.
SnapAct ==
    /\ \E p \in Players : \E a \in Cells(cfg) :
          /\ Act(cfg, board, p, a).err = "none"
          /\ Heap([mem.rows EXCEPT ![mem.grid[a.y + 1]][a.x] = p],
                  mem.grid, mem.snaps)
    /\ res' = [op |-> "Act", last |-> <<>>, modified |-> FALSE]
    /\ UNCHANGED <<terminateFlag, modelFile, twin, cfg, bb, gameVars>>

\* Reset: b.board becomes a new slice of new zeroed rows.
SnapReset ==
    /\ res.op # "Reset"
    /\ LET at == FreshFrom(DOMAIN mem.rows, 1, cfg.n)
       IN Heap(Allocated(mem.rows, at,
                         [i \in 1 .. cfg.n |-> [x \in Xs(cfg) |-> 0]]),
               at, mem.snaps)
    /\ res' = [op |-> "Reset", last |-> <<>>, modified |-> FALSE]
    /\ UNCHANGED <<terminateFlag, modelFile, twin, cfg, bb, gameVars>>

\* GetState: return b.board.Clone(). res.returned is the snapshot as
\* returned, res.last the one returned by the latest GetState since the
\* last Act or Reset.
SnapGetState ==
    /\ Len(mem.snaps) < MaxSnapshots
    /\ LET cl == Clone(mem.rows, mem.grid)
       IN /\ Heap(cl.rows, mem.grid, Append(mem.snaps, cl.snap))
          /\ res' = [op |-> "GetState",
                     returned |-> Deref(cl.rows, cl.snap),
                     last |-> Deref(cl.rows, cl.snap),
                     modified |-> res.modified]
    /\ UNCHANGED <<terminateFlag, modelFile, twin, cfg, bb, gameVars>>

\* The caller writes a cell of a snapshot it holds.
SnapModify ==
    /\ \E j \in 1 .. Len(mem.snaps) : \E a \in Cells(cfg) : \E v \in 0 .. 2 :
          /\ mem.rows[mem.snaps[j][a.y + 1]][a.x] # v
          /\ Heap([mem.rows EXCEPT ![mem.snaps[j][a.y + 1]][a.x] = v],
                  mem.grid, mem.snaps)
    /\ res' = [op |-> "Modify", last |-> res.last, modified |-> TRUE]
    /\ UNCHANGED <<terminateFlag, modelFile, twin, cfg, bb, gameVars>>

\* The caller lets go of a snapshot.
SnapDrop ==
    /\ \E j \in 1 .. Len(mem.snaps) :
          Heap(mem.rows, mem.grid,
               SubSeq(mem.snaps, 1, j - 1)
                   \o SubSeq(mem.snaps, j + 1, Len(mem.snaps)))
    /\ res' = [op |-> "Drop", last |-> res.last, modified |-> res.modified]
    /\ UNCHANGED <<terminateFlag, modelFile, twin, cfg, bb, gameVars>>

NextSnapshot ==
    \/ SnapAct
    \/ SnapReset
    \/ SnapGetState
    \/ SnapModify
    \/ SnapDrop

SpecSnapshot == InitSnapshot /\ [][NextSnapshot]_vars

-----------------------------------------------------------------------------

(* Reference notions the board claims are stated in.                       *)

\* How many cells in a row hold p, walking from (x, y) in steps of (dx, dy)
\* and stopping at the first cell off the grid or not holding p.
RECURSIVE RunFrom(_, _, _, _, _, _, _)
RunFrom(c, b, p, x, y, dx, dy) ==
    IF x \in Xs(c) /\ y \in Ys(c) /\ b[y][x] = p
    THEN 1 + RunFrom(c, b, p, x + dx, y + dy, dx, dy)
    ELSE 0

AxisDeltas == { <<1, 0>>, <<0, 1>>, <<1, 1>>, <<1, -1>> }

\* The length of the contiguous run of p through cell a on one axis, a
\* itself counted as p's.
RunThrough(c, b, p, a, d) ==
    1 + RunFrom(c, b, p, a.x + d[1], a.y + d[2], d[1], d[2])
      + RunFrom(c, b, p, a.x - d[1], a.y - d[2], -d[1], -d[2])

CompletesRun(c, b, p, a) ==
    \E d \in AxisDeltas : RunThrough(c, b, p, a, d) >= c.k

\* Some row, column or diagonal holds at least k consecutive marks of p.
HasRun(c, b, p) ==
    \E a \in Cells(c) : b[a.y][a.x] = p /\ CompletesRun(c, b, p, a)

Full(c, b) == \A a \in Cells(c) : b[a.y][a.x] # 0

EmptyCells(c, b) == { a \in Cells(c) : b[a.y][a.x] = 0 }

\* The game on b is still on: nobody has a run yet.
InPlay(c, b) == \A q \in Players : ~HasRun(c, b, q)

\* Evaluate's result seen by agent p, in EvaluateAction's terms.
Classify(e, p) == IF e = p THEN 1 ELSE IF e = -1 THEN -1 ELSE 0

\* C1: on every board reached by legal play that is still on, for every
\* agent p and empty cell a, EvaluateAction(p, a) before the move equals the
\* classification of Evaluate() after Act(p, a).
C1_EvaluateActionIsActThenEvaluate ==
    res.op # "none" =>
        \A p \in Players : \A a \in EmptyCells(cfg, board) :
            InPlay(cfg, board) =>
                EvaluateAction(cfg, board, p, a)
                    = Classify(Evaluate(cfg, Act(cfg, board, p, a).board), p)

\* C2: EvaluateAction(p, a) returns 1 exactly when, on some axis, the marks
\* of p strictly contiguous with a, plus a itself, number at least k.
C2_WinIffContiguousRun ==
    res.op # "none" =>
        \A p \in Players : \A a \in EmptyCells(cfg, board) :
            (EvaluateAction(cfg, board, p, a) = 1)
                <=> CompletesRun(cfg, board, p, a)

\* C3: Evaluate() returns a player exactly when that player has a run of k;
\* otherwise -1 exactly when the board is full and 0 when a cell is empty.
C3_EvaluateCharacterised ==
    res.op # "none" =>
        LET e == Evaluate(cfg, board)
            winners == { p \in Players : HasRun(cfg, board, p) }
        IN /\ winners # {} => e \in winners
           /\ (winners = {} /\ Full(cfg, board)) => e = -1
           /\ (winners = {} /\ ~Full(cfg, board)) => e = 0

\* The grid as it was before the mark at a was placed.
Without(b, a) == [b EXCEPT ![a.y][a.x] = 0]

\* C4: in legal play (nobody had a run before the move) a draw is reported
\* for a move (EvaluateAction -1 before or after the move is placed, or
\* Act's reward -0.5) only when, with the move placed, the board is full and
\* nobody has a run of k.
C4_DrawOnlyOnFullBoardWithoutRun ==
    (res.op = "Act" /\ res.input = "free"
        /\ InPlay(cfg, Without(board, res.a))) =>
        ( ( \/ res.before = -1
            \/ res.beforeB = -1
            \/ res.reward = -1
            \/ res.rewardB = -1
            \/ EvaluateAction(cfg, board, res.agent, res.a) = -1
            \/ BitEvaluateAction(cfg, bb, res.agent, res.a) = -1 )
          => (Full(cfg, board) /\ InPlay(cfg, board)) )

\* The reward the claim expects of a successful Act, in halves.
ExpectedReward(c, b, p, a) ==
    IF CompletesRun(c, b, p, a) THEN 2
    ELSE IF Full(c, b) THEN -1
    ELSE 0

\* C5: a successful Act(p, a) returns +1 exactly when the mark completes a
\* run of k, -0.5 exactly when it does not and the board is then full, and 0
\* otherwise.
C5_ActReward ==
    (res.op = "Act" /\ res.input = "free") =>
        /\ res.err = "none"
        /\ res.errB = "none"
        /\ res.reward = ExpectedReward(cfg, board, res.agent, res.a)
        /\ res.rewardB = ExpectedReward(cfg, board, res.agent, res.a)

\* C6: an Act outside the grid or on a taken cell returns an error and
\* leaves the grid, and the bitboard's bitmaps, move count and last-move
\* record, exactly as they were.
C6_FailedActChangesNothing ==
    [][ (res'.op = "Act" /\ res'.input # "free") =>
            /\ res'.err # "none"
            /\ res'.errB # "none"
            /\ board' = board
            /\ bb' = bb ]_vars

\* An Act on a taken cell has just been refused, with marks on
\* the board.
C6_Witness ==
    /\ res.op = "Act"
    /\ res.input = "taken"
    /\ res.err = "invalid"
    /\ res.errB = "invalid"
    /\ bb.moveCount >= 2

-----------------------------------------------------------------------------
(* float64 values of the table, modelled as exact fractions <<num, den>>   *)
(* in lowest terms with den > 0.                                           *)

Abs(i) == IF i < 0 THEN -i ELSE i

RECURSIVE Gcd(_, _)
Gcd(a, b) == IF b = 0 THEN a ELSE Gcd(b, a % b)

Frac(num, den) ==
    LET g == Gcd(Abs(num), den)
    IN IF num = 0 THEN <<0, 1>> ELSE <<num \div g, den \div g>>

\* Sums are taken over the least common denominator and products are
\* cancelled crosswise first, which keeps the intermediate integers small.
FAdd(p, q) ==
    LET g == Gcd(p[2], q[2])
    IN Frac(p[1] * (q[2] \div g) + q[1] * (p[2] \div g), (p[2] \div g) * q[2])

FSub(p, q) == FAdd(p, <<-q[1], q[2]>>)

FMul(p, q) ==
    LET g == Gcd(Abs(p[1]), q[2])
        h == Gcd(Abs(q[1]), p[2])
    IN Frac((p[1] \div g) * (q[1] \div h), (p[2] \div h) * (q[2] \div g))
FGreater(p, q) == p[1] * q[2] > q[1] * p[2]

Zero == <<0, 1>>
One == <<1, 1>>
MinusHalf == <<-1, 2>>
MinusOne == <<-1, 1>>

\* main.go's training set-up: p.LearningRate = 0.2, p.DiscountFactor = 0.8.
LearningRate == <<1, 5>>
DiscountFactor == <<4, 5>>

-----------------------------------------------------------------------------
(* RLAgent: the tabular Q-learning agent.                                  *)

\* game.MNKAction{X: -1, Y: -1}, the terminal action of GameOver.
Sentinel == [x |-> -1, y |-> -1]

\* game.MNKState{}: the state of an empty previous-transition buffer.
NoState == <<>>

NoPrev == [state |-> NoState, action |-> [x |-> 0, y |-> 0], reward |-> Zero]

\* marshallState as it would be with the symbol fixed by the player's
\* number instead of by who is asking.
marshallStateAbsolute(c, agentID, state, action) ==
    [t \in 1 .. (c.m * c.n) |->
        LET i == (t - 1) \div c.m
            j == (t - 1) % c.m
        IN IF i = action.y /\ j = action.x THEN "X"
           ELSE CASE state[i][j] = 0 -> "-"
                  [] state[i][j] = 1 -> "X"
                  [] OTHER -> "O"]

\* marshallState(agentID, state, action): one symbol per cell, row by row;
\* the action's cell is always "X".
marshallState(c, agentID, state, action) ==
    [t \in 1 .. (c.m * c.n) |->
        LET i == (t - 1) \div c.m
            j == (t - 1) % c.m
        IN IF i = action.y /\ j = action.x THEN "X"
           ELSE CASE state[i][j] = 0 -> "-"
                  [] state[i][j] = agentID -> "X"
                  [] OTHER -> "O"]

\* RLAgent.value: the immediate estimate, read from the live environment b.
\* The switch of RLAgent.value on environment.Evaluate()'s result e.
TerminalValue(agentID, e) ==
    CASE e = agentID -> One
      [] e = 0 -> Zero
      [] e = -1 -> MinusHalf
      [] OTHER -> MinusOne

\* The switch of RLAgent.value on environment.EvaluateAction's result e.
ActionValue(e) ==
    CASE e = 1 -> One
      [] e = 0 -> Zero
      [] e = -1 -> MinusHalf
      [] OTHER -> Zero

value(c, b, agentID, action) ==
    IF action = Sentinel
    THEN TerminalValue(agentID, Evaluate(c, b))
    ELSE ActionValue(EvaluateAction(c, b, agentID, action))

\* The assignment as it would be on a map made anew for it: key is the
\* only entry afterwards.
StoreAlone(tbl, key, v) == [q \in {key} |-> v]

\* Knowledge.Values[key] = v.
Store(tbl, key, v) ==
    [q \in (DOMAIN tbl) \cup {key} |-> IF q = key THEN v ELSE tbl[q]]

\* RLAgent.lookup: [val, tbl], the value and the table after the call.
\* lookup's miss: val is cached under mState and returned.
Cached(tbl, mState, val) == [val |-> val, tbl |-> Store(tbl, mState, val)]

\* lookup as it would be with the estimate taken afresh at every call.
lookupKeyFresh(c, b, tbl, agentID, action, mState) ==
    Cached(tbl, mState, value(c, b, agentID, action))

\* lookup once the key mState is marshalled.
lookupKey(c, b, tbl, agentID, action, mState) ==
    IF mState \in DOMAIN tbl
    THEN [val |-> tbl[mState], tbl |-> tbl]
    ELSE Cached(tbl, mState, value(c, b, agentID, action))

lookup(c, b, tbl, agentID, state, action) ==
    lookupKey(c, b, tbl, agentID, action,
              marshallState(c, agentID, state, action))

\* The update as it would be with the discount factor left out of the
\* target.
UpdatedUndiscounted(oldVal, reward, qMax) ==
    FAdd(oldVal, FMul(LearningRate, FSub(FAdd(reward, qMax), oldVal)))

\* The Q-learning update of RLAgent.learn for an existing entry.
Updated(oldVal, reward, qMax) ==
    FAdd(oldVal,
         FMul(LearningRate, FSub(FAdd(reward, FMul(DiscountFactor, qMax)), oldVal)))

\* RLAgent.learn(qMax): the table after the call.
learn(c, tbl, agentID, pr, qMax) ==
    IF DOMAIN pr.state = {} THEN tbl
    ELSE LET mState == marshallState(c, agentID, pr.state, pr.action)
             qValue == IF mState \in DOMAIN tbl
                       THEN Updated(tbl[mState], pr.reward, qMax)
                       ELSE pr.reward
         IN Store(tbl, mState, qValue)

\* The exploit loop's test with ties going to the later cell.
ConsiderLast(st, a, l) ==
    LET better == ~FGreater(st.qMax, l.val) \/ st.first
    IN [tbl |-> l.tbl,
        qMax |-> IF better THEN l.val ELSE st.qMax,
        action |-> IF better THEN a ELSE st.action,
        first |-> IF better THEN FALSE ELSE st.first]

\* One pass of the exploit loop's body for the empty cell a, whose lookup
\* gave l: "if v > qMax || first".
Consider(st, a, l) ==
    LET better == FGreater(l.val, st.qMax) \/ st.first
    IN [tbl |-> l.tbl,
        qMax |-> IF better THEN l.val ELSE st.qMax,
        action |-> IF better THEN a ELSE st.action,
        first |-> IF better THEN FALSE ELSE st.first]

\* The exploit loop without its test "if s[i][j] == 0": every cell of s is
\* a candidate.
RECURSIVE ExploitAllCells(_, _, _, _, _, _)
ExploitAllCells(c, b, agentID, s, pos, st) ==
    IF pos >= c.m * c.n THEN st
    ELSE LET i == pos \div c.m
             j == pos % c.m
             a == [x |-> j, y |-> i]
         IN ExploitAllCells(c, b, agentID, s, pos + 1,
                Consider(st, a, lookup(c, b, st.tbl, agentID, s, a)))

\* The exploit loop of FetchMove over the cells of s from position pos on,
\* row by row; st = [tbl, qMax, action, first].
RECURSIVE ExploitFrom(_, _, _, _, _, _)
ExploitFrom(c, b, agentID, s, pos, st) ==
    IF pos >= c.m * c.n THEN st
    ELSE LET i == pos \div c.m
             j == pos % c.m
             a == [x |-> j, y |-> i]
         IN IF s[i][j] # 0 THEN ExploitFrom(c, b, agentID, s, pos + 1, st)
            ELSE ExploitFrom(c, b, agentID, s, pos + 1,
                     Consider(st, a, lookup(c, b, st.tbl, agentID, s, a)))

\* The choice FetchMove makes: [tbl, qMax, action]. rndi = 0 stands for
\* e >= ExplorationFactor (exploit), rndi in 1 .. len(possibleActions) for
\* e < ExplorationFactor with rand.Intn returning rndi - 1.
\* The explore branch's result for the action drawn and its lookup l.
Chosen(l, action) == [tbl |-> l.tbl, qMax |-> l.val, action |-> action]

\* The exploit branch's result after the loop ended in st.
Exploited(st) == [tbl |-> st.tbl, qMax |-> st.qMax, action |-> st.action]

\* The choice with the explore branch drawing its index over all the
\* cells of the grid, not over the legal actions.
ChooseAmongCells(c, b, tbl, agentID, s, possibleActions, rndi) ==
    LET cell == [x |-> (rndi - 1) % c.m, y |-> (rndi - 1) \div c.m]
    IN IF rndi > 0
       THEN Chosen(lookup(c, b, tbl, agentID, s, cell), cell)
       ELSE Exploited(ExploitFrom(c, b, agentID, s, 0,
                [tbl |-> tbl, qMax |-> Zero,
                 action |-> [x |-> 0, y |-> 0], first |-> TRUE]))

Choose(c, b, tbl, agentID, s, possibleActions, rndi) ==
    IF rndi > 0
    THEN Chosen(lookup(c, b, tbl, agentID, s, possibleActions[rndi]),
                possibleActions[rndi])
    ELSE Exploited(ExploitFrom(c, b, agentID, s, 0,
             [tbl |-> tbl, qMax |-> Zero,
              action |-> [x |-> 0, y |-> 0], first |-> TRUE]))

\* RLAgent.FetchMove with learning on: [action, tbl, prev, qMax].
\* FetchMove after its choice ch: learn(qMax), then the previous-transition
\* buffer is set to (s, action, value(action)).
Remember(c, b, agentID, pr, s, ch) ==
    [action |-> ch.action,
     qMax |-> ch.qMax,
     tbl |-> learn(c, ch.tbl, agentID, pr, ch.qMax),
     prev |-> [state |-> s, action |-> ch.action,
               reward |-> value(c, b, agentID, ch.action)]]

FetchMove(c, b, tbl, agentID, pr, s, possibleActions, rndi) ==
    Remember(c, b, agentID, pr, s,
             Choose(c, b, tbl, agentID, s, possibleActions, rndi))

\* RLAgent.GameOver with learning on: [tbl, prev, qMax]; the caller adds one
\* to Knowledge.Iterations.
\* GameOver after its lookup l of the sentinel: learn, then the buffer is
\* cleared.
Conclude(c, agentID, pr, l) ==
    [qMax |-> l.val,
     tbl |-> learn(c, l.tbl, agentID, pr, l.val),
     prev |-> NoPrev]

GameOver(c, b, tbl, agentID, pr, s) ==
    Conclude(c, agentID, pr, lookup(c, b, tbl, agentID, s, Sentinel))

\* getNextPlayer with the turn never handed over.
getNextPlayerStay(current, maxPlayers) ==
    current

\* getNextPlayer(current, maxPlayers).
getNextPlayer(current, maxPlayers) ==
    IF current < maxPlayers THEN current + 1 ELSE 1

-----------------------------------------------------------------------------
(* Spec: main.go's training run. train calls newRound MaxRounds times;     *)
(* both players are RL agents with learning on, sharing one Knowledge.     *)

\* cfg.RL.TrainingMode: how many rounds train plays.
MaxRounds == 2

\* How far the set-up specification lets Knowledge.Iterations count.
MaxIterations == 3

\* Boards <<m, n, k>> the training run is checked on.
GameConfigs == { <<3, 1, 2>>, <<2, 2, 2>> }

EmptyTable == [q \in {} |-> Zero]

\* main up to its call of train with configuration c: no knowledge could
\* be loaded (LoadFromFile's error is only warned about), the agents are
\* built on the empty Knowledge, the SIGINT goroutine waits.
StartWith(c) ==
    /\ ~ConstructionFails(c.m, c.n, c.k)
    /\ cfg = c
    /\ terminateFlag = FALSE
    /\ modelFile = [written |-> FALSE]
    /\ mem = [at |-> "none"]
    /\ twin = [at |-> "none"]
    /\ board = EmptyBoard(cfg)
    /\ bb = EmptyBitboard
    /\ res = [op |-> "none"]
    /\ pc = "train"
    /\ round = 0
    /\ turn = 0
    /\ startTurn = 1
    /\ pending = Sentinel
    /\ values = EmptyTable
    /\ iterations = 0
    /\ prev = [id \in Players |-> NoPrev]
    /\ goLeft = {}
    /\ outcome = 0
    /\ obs = [op |-> "none"]

\* The same for board t, a number of rounds, and the flags -rl-no-learn
\* and -no-learn.
Start(t, rounds, noLearn, allNoLearn) ==
    StartWith([m |-> t[1], n |-> t[2], k |-> t[3], rounds |-> rounds,
               noLearn |-> noLearn, allNoLearn |-> allNoLearn])

Init ==
    \E t \in GameConfigs : Start(t, MaxRounds, FALSE, FALSE)

\* train's call of newRound, up to the top of its game loop: board.Reset()
\* and the starting player.
NewRound ==
    /\ pc = "train"
    /\ round < cfg.rounds
    /\ round' = round + 1
    /\ board' = EmptyBoard(cfg)
    /\ turn' = IF startTurn = 0 THEN 1 ELSE startTurn
    /\ pc' = "loop"
    /\ obs' = [op |-> "Reset"]
    /\ UNCHANGED <<sysVars, cfg, bb, res, startTurn, pending, values, iterations, prev,
                   goLeft, outcome>>

\* What newRound does with the move f that FetchMove returned; greedy says
\* that the agent took its exploit branch.
Fetched(f, greedy) ==
    LET had == DOMAIN prev[turn].state # {}
        key == marshallState(cfg, turn, prev[turn].state, prev[turn].action)
    IN /\ pending' = f.action
       /\ values' = f.tbl
       /\ prev' = [prev EXCEPT ![turn] = f.prev]
       /\ pc' = "act"
       /\ obs' = [op |-> "FetchMove", agent |-> turn, greedy |-> greedy,
                  qMax |-> f.qMax, learned |-> had,
                  key |-> IF had THEN key ELSE <<>>,
                  old |-> IF had THEN values[key] ELSE Zero,
                  reward |-> prev[turn].reward]
       /\ UNCHANGED outcome

\* The top of newRound's loop with FetchMove succeeding: no legal action left
\* ends the round as a draw at once; otherwise the agent in turn picks its
\* move (rndi as in Choose).
DriverFetchMove ==
    /\ pc = "loop"
    /\ LET possibleActions == GetPotentialActions(cfg, board)
       IN IF Len(possibleActions) = 0
          THEN /\ pc' = "return"
               /\ outcome' = 0
               /\ obs' = [op |-> "NoActions"]
               /\ UNCHANGED <<pending, values, prev>>
          ELSE \E rndi \in 0 .. Len(possibleActions) :
                  Fetched(FetchMove(cfg, board, values, turn, prev[turn],
                                    board, possibleActions, rndi),
                          rndi = 0)
    /\ UNCHANGED <<sysVars, cfg, board, bb, res, round, turn, startTurn,
                   iterations, goLeft>>

\* The top of newRound's loop with FetchMove returning an error (HumanAgent
\* does on unreadable input; the common.Agent contract lets any agent, and
\* newRound provides for it): player 1 is asked again, any other player's
\* error ends the round as a draw.
DriverFetchError ==
    /\ pc = "loop"
    /\ Len(GetPotentialActions(cfg, board)) > 0
    /\ IF turn # 1
       THEN /\ pc' = "return"
            /\ outcome' = 0
       ELSE UNCHANGED <<pc, outcome>>
    /\ obs' = [op |-> "FetchError", agent |-> turn]
    /\ UNCHANGED <<sysVars, cfg, board, bb, res, round, turn, startTurn, pending,
                   values, iterations, prev, goLeft>>

\* The top of newRound's loop with FetchMove returning an action that Act
\* will reject (HumanAgent returns whatever cell number was typed, taken or
\* beyond the grid; the common.Agent contract lets any agent): the action
\* goes on to Act like any other. The agent's own state is untouched.
DriverFetchRejected ==
    /\ pc = "loop"
    /\ Len(GetPotentialActions(cfg, board)) > 0
    /\ \E a \in AnyActions(cfg) :
          /\ Act(cfg, board, turn, a).err # "none"
          /\ pending' = a
    /\ pc' = "act"
    /\ obs' = [op |-> "FetchRejected", agent |-> turn]
    /\ UNCHANGED <<sysVars, cfg, board, bb, res, round, turn, startTurn, values,
                   iterations, prev, goLeft, outcome>>

\* board.Act and, when it succeeds, board.EvaluateAction and the branch on
\* its result. The iteration's action variable ends with the iteration.
DriverAct ==
    /\ pc = "act"
    /\ pending' = Sentinel
    /\ LET r == Act(cfg, board, turn, pending)
           result == EvaluateAction(cfg, r.board, turn, pending)
       IN IF r.err # "none"
          THEN /\ pc' = "loop"
               /\ obs' = [op |-> "ActError", agent |-> turn]
               /\ UNCHANGED <<board, turn, goLeft, outcome>>
          ELSE /\ board' = r.board
               /\ obs' = [op |-> "Act", agent |-> turn, a |-> pending,
                          reward |-> r.reward, result |-> result]
               /\ IF result = 0
                  THEN /\ turn' = getNextPlayer(turn, Cardinality(Players))
                       /\ pc' = "loop"
                       /\ UNCHANGED <<goLeft, outcome>>
                  ELSE /\ pc' = "gameover"
                       /\ goLeft' = Players
                       /\ outcome' = IF result = -1 THEN 0 ELSE turn
                       /\ UNCHANGED turn
    /\ UNCHANGED <<sysVars, cfg, bb, res, round, startTurn, values,
                   iterations, prev>>

\* agent.GameOver(state) for agent id, g being what the call computed, and
\* the loop's bookkeeping.
Notified(id, g) ==
    LET had == DOMAIN prev[id].state # {}
        key == marshallState(cfg, id, prev[id].state, prev[id].action)
    IN /\ values' = g.tbl
       /\ prev' = [prev EXCEPT ![id] = g.prev]
       /\ iterations' = iterations + 1
       /\ goLeft' = goLeft \ {id}
       /\ pc' = IF goLeft \ {id} = {} THEN "return" ELSE "gameover"
       /\ obs' = [op |-> "GameOver", agent |-> id,
                  qMax |-> g.qMax, learned |-> had,
                  key |-> IF had THEN key ELSE <<>>,
                  old |-> IF had THEN values[key] ELSE Zero,
                  reward |-> prev[id].reward]

\* One iteration of newRound's "for id, agent := range agents" loop: the
\* map's order is unspecified, so any agent not yet notified may be next.
DriverGameOver ==
    /\ pc = "gameover"
    /\ \E id \in goLeft :
          Notified(id, GameOver(cfg, board, values, id, prev[id], board))
    /\ UNCHANGED <<sysVars, cfg, board, bb, res, round, turn, startTurn, pending,
                   outcome>>

\* knowledge.SaveToFile(cfg.RL.ModelFile): the whole Knowledge is encoded.
SaveToFile(v, it) ==
    [written |-> TRUE, Values |-> v, Iterations |-> it]

\* train's pTick for loop counter c.
pTick(c, rounds) ==
    (c * 100) % rounds = 0

\* What train's read of *terminateFlag may give. The flag is a plain bool
\* written by the SIGINT goroutine and read by train with nothing ordering
\* the two: once written, a read gives the new value or still the old one.
FlagReads(flag) ==
    IF flag THEN {TRUE, FALSE} ELSE {FALSE}

\* The rest of train's loop body after newRound has returned, seen being
\* what the read of *terminateFlag gave.
AfterRound(seen) ==
    /\ startTurn' = IF outcome = 0
                    THEN getNextPlayer(startTurn, Cardinality(Players))
                    ELSE outcome
    /\ pc' = IF seen THEN "done" ELSE "train"
    /\ modelFile' = IF ~cfg.noLearn /\ (seen \/ pTick(round, cfg.rounds))
                    THEN SaveToFile(values, iterations)
                    ELSE modelFile
    /\ obs' = [op |-> IF seen THEN "Terminated" ELSE "Return",
               winner |-> outcome]

\* newRound returns to train: the winner starts the next round, after a
\* draw the player after the one who started this round; then the
\* termination check and the periodic save.
RoundReturn ==
    /\ pc = "return"
    /\ \E seen \in FlagReads(terminateFlag) : AfterRound(seen)
    /\ UNCHANGED <<terminateFlag, mem, twin, cfg, board, bb, res, round, turn,
                   pending, values, iterations, prev, goLeft, outcome>>

\* The SIGINT goroutine: the signal arrives, terminateFlag = true, and
\* signal.Reset leaves later interrupts to the runtime's default.
Interrupt ==
    /\ pc \notin {"done", "idle"}
    /\ ~terminateFlag
    /\ terminateFlag' = TRUE
    /\ UNCHANGED <<modelFile, mem, twin, cfg, board, bb, res, pc, round, turn,
                   startTurn, pending, values, iterations, prev, goLeft,
                   outcome, obs>>

Next ==
    \/ NewRound
    \/ DriverFetchMove
    \/ DriverFetchError
    \/ DriverFetchRejected
    \/ DriverAct
    \/ DriverGameOver
    \/ RoundReturn

Spec == Init /\ [][Next]_vars

FairConfigs == { <<3, 1, 2>> }

InitFair ==
    \E t \in FairConfigs : Start(t, 1, FALSE, FALSE)

\* The driver's positions, and a step in which the driver moves on: it
\* changes position or notifies one more agent. Every step of newRound and
\* train but the retry after agent 1's FetchMove error is one.
Positions == {"train", "loop", "act", "gameover", "return", "done"}

DriverStep ==
    /\ \/ pc \in {"loop", "act", "gameover", "return"}
       \/ pc = "train" /\ round < cfg.rounds
    /\ pc' \in Positions
    /\ goLeft' \in SUBSET Players

\* The driver is a running thread: while train or newRound has a step to
\* take, it eventually moves on.
SpecFair == InitFair /\ [][Next]_vars /\ WF_<<pc, goLeft>>(DriverStep)

\* One round on a row wide enough for marks k cells apart (m > k + 1).
WideConfigs == { <<5, 1, 3>> }

InitWide ==
    \E t \in WideConfigs : Start(t, 1, FALSE, FALSE)

SpecWide == InitWide /\ [][Next]_vars

\* The training run with SIGINT arriving at any moment, learning saved or
\* not (-rl-no-learn).
InterruptRounds == 3

InitInterrupt ==
    \E t \in FairConfigs : \E noLearn \in BOOLEAN :
        Start(t, InterruptRounds, noLearn, FALSE)

NextInterrupt ==
    \/ Next
    \/ Interrupt

SpecInterrupt == InitInterrupt /\ [][NextInterrupt]_vars

-----------------------------------------------------------------------------
(* SpecRounds: rounds between the two RL agents alone, the driver being a  *)
(* running thread: every step is one newRound and train take when both     *)
(* agents answer FetchMove with a move of their own.                       *)

RoundConfigs == { <<3, 1, 2>>, <<2, 2, 2>>, <<3, 2, 3>> }

InitRounds ==
    \E t \in RoundConfigs : Start(t, 1, FALSE, FALSE)

NextRounds ==
    \/ NewRound
    \/ DriverFetchMove
    \/ DriverAct
    \/ DriverGameOver
    \/ RoundReturn

SpecRounds ==
    InitRounds /\ [][NextRounds]_vars /\ WF_<<pc, goLeft>>(DriverStep)

-----------------------------------------------------------------------------

(* SpecTurns: who starts each round of a training run, as main.go's train  *)
(* (build "game") and as part_006's train (build "main") hand the turn     *)
(* from one round to the next; the round between is newRound's.            *)

TurnBuilds == {"game", "main"}

InitTurns ==
    \E t \in GameConfigs : \E build \in TurnBuilds :
        StartWith([m |-> t[1], n |-> t[2], k |-> t[3], rounds |-> MaxRounds,
                   noLearn |-> FALSE, allNoLearn |-> FALSE, build |-> build])

\* train after newRound has returned winner: "if turn == 0 { turn =
\* getNextPlayer(...) }". main.go passes prevTurn, the turn it gave
\* newRound; part_006 passes turn, which it has just found to be 0.
NextStarter(build, prevTurn, winner) ==
    IF winner # 0 THEN winner
    ELSE getNextPlayer(IF build = "main" THEN winner ELSE prevTurn,
                       Cardinality(Players))

\* newRound returns to train: the next starter, and the periodic save.
TurnsReturn ==
    /\ pc = "return"
    /\ startTurn' = NextStarter(cfg.build, startTurn, outcome)
    /\ pc' = "train"
    /\ modelFile' = IF ~cfg.noLearn /\ pTick(round, cfg.rounds)
                    THEN SaveToFile(values, iterations)
                    ELSE modelFile
    /\ obs' = [op |-> "Return", winner |-> outcome]
    /\ UNCHANGED <<terminateFlag, mem, twin, cfg, board, bb, res, round, turn,
                   pending, values, iterations, prev, goLeft, outcome>>

NextTurns ==
    \/ NewRound
    \/ DriverFetchMove
    \/ DriverAct
    \/ DriverGameOver
    \/ TurnsReturn

SpecTurns == InitTurns /\ [][NextTurns]_vars

-----------------------------------------------------------------------------

(* SpecLoad: main from its call of LoadFromFile to the end of a training   *)
(* run of one round, for each kind of model file it may find.              *)

LoadConfigs == { <<3, 1, 2>> }

\* The Knowledge an earlier run saved on that board.
SavedKnowledge ==
    [Values |-> (<<"X", "-", "-">> :> One) @@ (<<"O", "X", "-">> :> MinusHalf),
     Iterations |-> 2]

\* What cfg.RL.ModelFile names: no file, a file os.Open fails on, a file
\* whose bytes the decoder fails on, or the file SaveToFile wrote.
ModelFiles ==
    { [written |-> FALSE, kind |-> "absent"],
      [written |-> TRUE, kind |-> "unopenable"],
      [written |-> TRUE, kind |-> "damaged"],
      [written |-> TRUE, kind |-> "good"] }

\* What dec.Decode(k) has stored in *k when it returns an error: the
\* decoder fills the Knowledge in place, field by field (Values, one entry
\* at a time in any order, then Iterations), and stops where the bytes go
\* wrong.
Decoded(k) ==
    { [made |-> made, Values |-> EmptyTable, Iterations |-> 0] :
          made \in BOOLEAN }
    \cup { [made |-> TRUE, Values |-> [q \in keys |-> k.Values[q]],
            Iterations |-> 0] : keys \in SUBSET DOMAIN k.Values }
    \cup { [made |-> TRUE, Values |-> k.Values, Iterations |-> k.Iterations] }

\* RLAgentKnowledge.LoadFromFile on the zero Knowledge: the outcomes
\* [ok, err, made, Values, Iterations], made saying that k.Values is not
\* nil.
LoadFromFile(file) ==
    CASE file.kind \in {"absent", "unopenable"} ->
           { [ok |-> FALSE, err |-> "open", made |-> FALSE,
              Values |-> EmptyTable, Iterations |-> 0] }
      [] file.kind = "damaged" ->
           { [ok |-> FALSE, err |-> "decode", made |-> d.made,
              Values |-> d.Values, Iterations |-> d.Iterations] :
                 d \in Decoded(SavedKnowledge) }
      [] OTHER ->
           { [ok |-> TRUE, err |-> "nil", made |-> TRUE,
              Values |-> SavedKnowledge.Values,
              Iterations |-> SavedKnowledge.Iterations] }

InitLoad ==
    /\ \E t \in LoadConfigs : \E status \in BOOLEAN :
          cfg = [m |-> t[1], n |-> t[2], k |-> t[3], rounds |-> 1,
                 noLearn |-> FALSE, allNoLearn |-> FALSE,
                 statusMode |-> status]
    /\ modelFile \in ModelFiles
    /\ mem = [at |-> "main", readKnowledgeOK |-> FALSE, err |-> "none",
              made |-> FALSE]
    /\ pc = "main"
    /\ terminateFlag = FALSE
    /\ twin = [at |-> "none"]
    /\ board = EmptyBoard(cfg)
    /\ bb = EmptyBitboard
    /\ res = [op |-> "none"]
    /\ round = 0
    /\ turn = 0
    /\ startTurn = 1
    /\ pending = Sentinel
    /\ values = EmptyTable
    /\ iterations = 0
    /\ prev = [id \in Players |-> NoPrev]
    /\ goLeft = {}
    /\ outcome = 0
    /\ obs = [op |-> "none"]

\* main: rlKnowledge.LoadFromFile(cfg.RL.ModelFile); an error is printed
\* as a notice or a warning and main goes on.
MainLoad ==
    /\ pc = "main"
    /\ \E l \in LoadFromFile(modelFile) :
          /\ values' = l.Values
          /\ iterations' = l.Iterations
          /\ mem' = [mem EXCEPT !.readKnowledgeOK = l.ok, !.err = l.err,
                                !.made = l.made]
          /\ obs' = [op |-> "LoadFromFile", ok |-> l.ok]
    /\ pc' = "setup"
    /\ UNCHANGED <<terminateFlag, modelFile, twin, cfg, board, bb, res, round,
                   turn, startTurn, pending, prev, goLeft, outcome>>

\* main with -rl-model-status: the report, or "No readable model file
\* found", and return.
MainStatus ==
    /\ pc = "setup"
    /\ cfg.statusMode
    /\ pc' = "done"
    /\ obs' = [op |-> "Status", report |-> mem.readKnowledgeOK]
    /\ UNCHANGED <<sysVars, cfg, board, bb, res, round, turn, startTurn,
                   pending, values, iterations, prev, goLeft, outcome>>

\* main builds the two training agents on the Knowledge: NewRLAgent makes
\* Values if it is nil and leaves what is there otherwise; then train.
MainAgents ==
    /\ pc = "setup"
    /\ ~cfg.statusMode
    /\ mem' = [mem EXCEPT !.made = TRUE]
    /\ pc' = "train"
    /\ obs' = [op |-> "NewRLAgent", made |-> ~mem.made]
    /\ UNCHANGED <<terminateFlag, modelFile, twin, cfg, board, bb, res, round,
                   turn, startTurn, pending, values, iterations, prev, goLeft,
                   outcome>>

NextLoad ==
    \/ MainLoad
    \/ MainStatus
    \/ MainAgents
    \/ Next

SpecLoad == InitLoad /\ [][NextLoad]_vars

-----------------------------------------------------------------------------

(* SpecPlay: main.go's play mode. Player 1 is a HumanAgent, player 2 an    *)
(* RLAgent built with learn = !cfg.NoLearn; play calls newRound            *)
(* PlayRounds times.                                                       *)

PlayRounds == 2

\* The ids main gives the two agents of a play-mode match.
Human == 1
Machine == 2

\* Go's integer division and remainder, which truncate towards zero.
Quo(a, b) == IF a >= 0 THEN a \div b ELSE -((-a) \div b)

Rem(a, b) == IF a >= 0 THEN a % b ELSE -((-a) % b)

\* HumanAgent.FetchMove for the number pos read from the terminal.
HumanMove(c, pos) == [x |-> Rem(pos - 1, c.m), y |-> Quo(pos - 1, c.m)]

\* Numbers a player may type: every cell (1 .. m*n), and numbers before
\* and after that range.
HumanInputs(c) == (1 - c.m) .. (c.m * c.n + 1)

\* "if agent.Learning { agent.learn(qMax) }" and the three assignments to
\* agent.prev that end FetchMove.
FetchMoveLearning(learning, c, b, agentID, pr, s, ch) ==
    IF learning THEN Remember(c, b, agentID, pr, s, ch)
    ELSE [action |-> ch.action,
          qMax |-> ch.qMax,
          tbl |-> ch.tbl,
          prev |-> [state |-> s, action |-> ch.action,
                    reward |-> value(c, b, agentID, ch.action)]]

\* agent.Knowledge.Iterations++ at the end of GameOver.
CountedIfLearning(it, learning) == IF learning THEN it + 1 ELSE it

Counted(it, learning) == it + 1

\* GameOver with its final update made whatever the learn flag says.
GameOverAlwaysLearning(learning, c, b, tbl, agentID, pr, s) ==
    GameOver(c, b, tbl, agentID, pr, s)

\* RLAgent.GameOver for an agent built with the given learn flag:
\* [tbl, prev, qMax].
GameOverLearning(learning, c, b, tbl, agentID, pr, s) ==
    IF learning THEN GameOver(c, b, tbl, agentID, pr, s)
    ELSE [qMax |-> Zero, tbl |-> tbl, prev |-> NoPrev]

InitPlay ==
    \E t \in GameConfigs : \E noLearn \in BOOLEAN, allNoLearn \in BOOLEAN :
        Start(t, PlayRounds, noLearn, allNoLearn)

\* The top of newRound's loop with the human in turn: the number typed
\* becomes the action, whatever cell it names.
PlayHumanMove ==
    /\ pc = "loop"
    /\ turn = Human
    /\ IF Len(GetPotentialActions(cfg, board)) = 0
       THEN /\ pc' = "return"
            /\ outcome' = 0
            /\ obs' = [op |-> "NoActions"]
            /\ UNCHANGED pending
       ELSE /\ \E pos \in HumanInputs(cfg) : pending' = HumanMove(cfg, pos)
            /\ pc' = "act"
            /\ obs' = [op |-> "HumanMove", agent |-> turn]
            /\ UNCHANGED outcome
    /\ UNCHANGED <<sysVars, cfg, board, bb, res, round, turn, startTurn, values,
                   iterations, prev, goLeft>>

\* Scanln fails on the human's input: FetchMove returns the error and
\* newRound asks again.
PlayHumanError ==
    /\ pc = "loop"
    /\ turn = Human
    /\ Len(GetPotentialActions(cfg, board)) > 0
    /\ obs' = [op |-> "FetchError", agent |-> turn]
    /\ UNCHANGED <<sysVars, cfg, board, bb, res, pc, round, turn, startTurn,
                   pending, values, iterations, prev, goLeft, outcome>>

\* The top of newRound's loop with the RL agent in turn.
PlayFetchMove ==
    /\ pc = "loop"
    /\ turn = Machine
    /\ LET possibleActions == GetPotentialActions(cfg, board)
       IN IF Len(possibleActions) = 0
          THEN /\ pc' = "return"
               /\ outcome' = 0
               /\ obs' = [op |-> "NoActions"]
               /\ UNCHANGED <<pending, values, prev>>
          ELSE \E rndi \in 0 .. Len(possibleActions) :
                  LET f == FetchMoveLearning(~cfg.allNoLearn, cfg, board, turn,
                               prev[turn], board,
                               Choose(cfg, board, values, turn, board,
                                      possibleActions, rndi))
                  IN /\ pending' = f.action
                     /\ values' = f.tbl
                     /\ prev' = [prev EXCEPT ![turn] = f.prev]
                     /\ pc' = "act"
                     /\ obs' = [op |-> "FetchMove", agent |-> turn,
                                greedy |-> (rndi = 0), qMax |-> f.qMax,
                                learning |-> ~cfg.allNoLearn]
                     /\ UNCHANGED outcome
    /\ UNCHANGED <<sysVars, cfg, board, bb, res, round, turn, startTurn,
                   iterations, goLeft>>

\* One iteration of newRound's GameOver loop: HumanAgent.GameOver does
\* nothing, RLAgent.GameOver learns if the agent is a learner, clears its
\* buffer and counts the iteration.
PlayGameOver ==
    /\ pc = "gameover"
    /\ \E id \in goLeft :
          /\ goLeft' = goLeft \ {id}
          /\ pc' = IF goLeft \ {id} = {} THEN "return" ELSE "gameover"
          /\ IF id = Human
             THEN /\ obs' = [op |-> "HumanGameOver", agent |-> id]
                  /\ UNCHANGED <<values, prev, iterations>>
             ELSE LET g == GameOverLearning(~cfg.allNoLearn, cfg, board, values,
                                            id, prev[id], board)
                  IN /\ values' = g.tbl
                     /\ prev' = [prev EXCEPT ![id] = g.prev]
                     /\ iterations' = Counted(iterations, ~cfg.allNoLearn)
                     /\ obs' = [op |-> "GameOver", agent |-> id,
                                qMax |-> g.qMax, learning |-> ~cfg.allNoLearn]
    /\ UNCHANGED <<sysVars, cfg, board, bb, res, round, turn, startTurn, pending,
                   outcome>>

\* newRound returns to play: the winner starts the next round, after a
\* draw the player after the one who started this one; the Knowledge is
\* saved after every round unless cfg.RL.NoLearn is set.
PlayReturn ==
    /\ pc = "return"
    /\ startTurn' = IF outcome = 0
                    THEN getNextPlayer(startTurn, Cardinality(Players))
                    ELSE outcome
    /\ pc' = "train"
    /\ modelFile' = IF ~cfg.noLearn THEN SaveToFile(values, iterations)
                    ELSE modelFile
    /\ obs' = [op |-> "Return", winner |-> outcome]
    /\ UNCHANGED <<terminateFlag, mem, twin, cfg, board, bb, res, round, turn,
                   pending, values, iterations, prev, goLeft, outcome>>

NextPlay ==
    \/ NewRound
    \/ PlayHumanMove
    \/ PlayHumanError
    \/ PlayFetchMove
    \/ DriverAct
    \/ PlayGameOver
    \/ PlayReturn

SpecPlay == InitPlay /\ [][NextPlay]_vars

-----------------------------------------------------------------------------

(* SpecSetup: which map each training agent reads and writes, and which    *)
(* one is saved. mem.heap is the sequence of maps made so far; mem.Values  *)
(* is the Knowledge's Values (0 for nil), mem.ref[id] what agent id holds: *)
(* a map of its own (the values field of rlagent.go's RLAgent) or the      *)
(* Knowledge itself (the Knowledge field of the agents package's RLAgent). *)
(* The repository holds both constructors; mem.build says which one the    *)
(* program was built with.                                                 *)

Builds == {"main", "agents"}

\* Keys and values the agents' lookups store during the run.
SetupKeys == {"X--", "-XO"}
SetupValues == {Zero, One}

\* What is in the Knowledge when the agents are built: nothing loaded, or
\* the model file of an earlier run (saved before or after its first
\* GameOver).
Loaded ==
    { [heap |-> <<>>, Values |-> 0, Iterations |-> 0],
      [heap |-> <<[q \in {"X--"} |-> One]>>, Values |-> 1, Iterations |-> 0],
      [heap |-> <<[q \in {"X--"} |-> One]>>, Values |-> 1, Iterations |-> 2] }

\* What mem.ref[id] holds for an agent that keeps the pointer to the
\* Knowledge instead of a map.
ViaKnowledge == -1

\* make(map[string]float64): a new empty map at the end of the heap.
Make(heap) == Append(heap, EmptyTable)

\* NewRLAgent of rlagent.go (package main, global rlKnowledge).
main_NewRLAgent(mm, id) ==
    LET made == mm.Iterations = 0
        heap == IF made THEN Make(mm.heap) ELSE mm.heap
        ref == IF made THEN Len(heap) ELSE mm.Values
    IN [mm EXCEPT !.heap = heap, !.Values = ref, !.ref[id] = ref]

\* NewRLAgent of the agents package (knowledge passed by pointer).
agents_NewRLAgent(mm, id) ==
    LET made == mm.Values = 0
        heap == IF made THEN Make(mm.heap) ELSE mm.heap
    IN [mm EXCEPT !.heap = heap,
                  !.Values = IF made THEN Len(heap) ELSE mm.Values,
                  !.ref[id] = ViaKnowledge]

\* The map a table access of agent id goes to: agent.values, or
\* agent.Knowledge.Values.
TableOf(mm, id) ==
    IF mm.ref[id] = ViaKnowledge THEN mm.Values ELSE mm.ref[id]

InitSetup ==
    /\ cfg = Config(<<3, 1, 2>>)
    /\ board = EmptyBoard(cfg)
    /\ bb = EmptyBitboard
    /\ res = [op |-> "none"]
    /\ terminateFlag = FALSE
    /\ modelFile = [written |-> FALSE]
    /\ twin = [at |-> "none"]
    /\ pc = "idle"
    /\ round = 0
    /\ turn = 0
    /\ startTurn = 0
    /\ pending = [x |-> -1, y |-> -1]
    /\ values = <<>>
    /\ iterations = 0
    /\ prev = <<>>
    /\ goLeft = {}
    /\ outcome = 0
    /\ obs = [op |-> "none"]
    /\ \E build \in Builds : \E l \in Loaded :
          mem = [at |-> "new", build |-> build, heap |-> l.heap,
                 Values |-> l.Values, Iterations |-> l.Iterations,
                 ref |-> [id \in Players |-> 0]]

\* train (rlagent.go's program) or main (the agents package's) builds the
\* two agents, agent 1 first.
SetupNew ==
    /\ mem.at = "new"
    /\ \E id \in Players :
          /\ mem.ref[id] = 0
          /\ \A other \in Players : other < id => mem.ref[other] # 0
          /\ LET mm == IF mem.build = "main"
                       THEN main_NewRLAgent(mem, id)
                       ELSE agents_NewRLAgent(mem, id)
             IN mem' = [mm EXCEPT !.at = IF id = Cardinality(Players)
                                         THEN "run" ELSE "new"]
    /\ UNCHANGED <<terminateFlag, modelFile, twin, cfg, board, bb, res, gameVars>>

\* A lookup or learn of agent id stores v under key in its table.
SetupStore ==
    /\ mem.at = "run"
    /\ \E id \in Players : \E key \in SetupKeys : \E v \in SetupValues :
          LET t == TableOf(mem, id)
          IN mem' = [mem EXCEPT !.heap[t] =
                        [q \in DOMAIN mem.heap[t] \cup {key} |->
                            IF q = key THEN v ELSE mem.heap[t][q]]]
    /\ UNCHANGED <<terminateFlag, modelFile, twin, cfg, board, bb, res, gameVars>>

\* GameOver's count of the Knowledge's Iterations.
SetupGameOver ==
    /\ mem.at = "run"
    /\ mem.Iterations < MaxIterations
    /\ mem' = [mem EXCEPT !.Iterations = @ + 1]
    /\ UNCHANGED <<terminateFlag, modelFile, twin, cfg, board, bb, res, gameVars>>

\* train saves the Knowledge: its Values map and its Iterations.
SetupSave ==
    /\ mem.at = "run"
    /\ modelFile' = SaveToFile(mem.heap[mem.Values], mem.Iterations)
    /\ mem' = [mem EXCEPT !.at = "saved"]
    /\ UNCHANGED <<terminateFlag, twin, cfg, board, bb, res, gameVars>>

NextSetup ==
    \/ SetupNew
    \/ SetupStore
    \/ SetupGameOver
    \/ SetupSave

SpecSetup == InitSetup /\ [][NextSetup]_vars

-----------------------------------------------------------------------------
(* SpecConstruct: the constructors and the factory, called with every      *)
(* combination of sizes and run lengths up to MaxSide.                     *)

MaxSide == 9

\* The number of cells a uint64 bitmap can hold.
BitboardCells == 64

BoardTypes == {"Auto", "Original", "Bitmap"}

\* A BoardType value that is none of the three constants.
OtherBoardType == "Other"

Built(kind) == [err |-> "none", kind |-> kind]

Refused(err) == [err |-> err, kind |-> "nil"]

NewMNKBoard(m, n, k) ==
    IF k > m /\ k > n THEN Refused("k exceeds both m and n")
    ELSE Built("MNKBoard")

NewMNKBitboard(m, n, k) ==
    IF k > m /\ k > n THEN Refused("k exceeds both m and n")
    ELSE IF m * n > BitboardCells THEN Refused("exceeds 64 cells")
    ELSE Built("MNKBitboard")

RECURSIVE CreateBoard(_, _, _, _)
CreateBoard(boardType, m, n, k) ==
    CASE boardType = "Auto" ->
            IF m * n <= BitboardCells THEN CreateBoard("Bitmap", m, n, k)
            ELSE CreateBoard("Original", m, n, k)
      [] boardType = "Original" -> NewMNKBoard(m, n, k)
      [] boardType = "Bitmap" ->
            IF m * n > BitboardCells THEN Refused("exceeds 64 cells")
            ELSE NewMNKBitboard(m, n, k)
      [] OTHER -> Refused("unknown board type")

\* Nothing constructed yet.
InitConstruct ==
    /\ cfg = [m |-> 0, n |-> 0, k |-> 0]
    /\ board = <<>>
    /\ bb = EmptyBitboard
    /\ res = [op |-> "none"]
    /\ GameIdle

\* One constructor call (a run constructs its board once): its arguments,
\* what it returned, and the board it built (empty, after the constructor's
\* Reset).
Constructed(op, boardType, m, n, k, r) ==
    /\ res' = [op |-> op, boardType |-> boardType, m |-> m, n |-> n, k |-> k,
               err |-> r.err, kind |-> r.kind]
    /\ cfg' = [m |-> m, n |-> n, k |-> k]
    /\ board' = IF r.kind = "MNKBoard" THEN EmptyBoard(cfg') ELSE <<>>
    /\ bb' = EmptyBitboard
    /\ UNCHANGED <<sysVars, gameVars>>

CallNewMNKBoard ==
    /\ res.op = "none"
    /\ \E m, n \in 1 .. MaxSide : \E k \in 1 .. MaxSide + 1 :
          Constructed("NewMNKBoard", "Original", m, n, k,
                      NewMNKBoard(m, n, k))

CallNewMNKBitboard ==
    /\ res.op = "none"
    /\ \E m, n \in 1 .. MaxSide : \E k \in 1 .. MaxSide + 1 :
          Constructed("NewMNKBitboard", "Bitmap", m, n, k,
                      NewMNKBitboard(m, n, k))

CallCreateBoard ==
    /\ res.op = "none"
    /\ \E boardType \in BoardTypes \cup {OtherBoardType} :
          \E m, n \in 1 .. MaxSide : \E k \in 1 .. MaxSide + 1 :
              Constructed("CreateBoard", boardType, m, n, k,
                          CreateBoard(boardType, m, n, k))

NextConstruct == CallNewMNKBoard \/ CallNewMNKBitboard \/ CallCreateBoard

SpecConstruct == InitConstruct /\ [][NextConstruct]_vars

-----------------------------------------------------------------------------

(* SpecAuto: main with the board CreateBoard(Auto, m, n, k) gives it, and  *)
(* the conversions a round makes of what that board's GetState returns.    *)

\* Config.Validate on the game's sizes.
Validate(m, n, k) ==
    /\ m > 0
    /\ n > 0
    /\ k > 0
    /\ ~(k > m /\ k > n)

\* The dynamic type of the common.State GetState returns: MNKBitboard
\* returns b.board.Clone(), a BitboardState; MNKBoard an MNKState.
GetStateType(kind) ==
    IF kind = "MNKBitboard" THEN "BitboardState" ELSE "MNKState"

\* state.(game.MNKState) in its single-value form: any other dynamic type
\* panics.
AssertsMNKState(stateType) == stateType = "MNKState"

\* main after cfg.Validate() has passed, display on or off (-no-display).
InitAuto ==
    /\ \E m, n \in 1 .. MaxSide : \E k \in 1 .. MaxSide + 1 :
          \E noDisplay \in BOOLEAN :
              /\ Validate(m, n, k)
              /\ cfg = [m |-> m, n |-> n, k |-> k, noDisplay |-> noDisplay]
    /\ terminateFlag = FALSE
    /\ modelFile = [written |-> FALSE]
    /\ mem = [at |-> "none"]
    /\ twin = [at |-> "none"]
    /\ board = <<>>
    /\ bb = EmptyBitboard
    /\ res = [op |-> "none"]
    /\ pc = "main"
    /\ round = 0
    /\ turn = 0
    /\ startTurn = 1
    /\ pending = Sentinel
    /\ values = EmptyTable
    /\ iterations = 0
    /\ prev = [id \in Players |-> NoPrev]
    /\ goLeft = {}
    /\ outcome = 0
    /\ obs = [op |-> "none"]

\* main: game.CreateBoard(game.Auto, cfg.Game.M, cfg.Game.N, cfg.Game.K);
\* an error ends the program.
AutoCreateBoard ==
    /\ pc = "main"
    /\ LET r == CreateBoard("Auto", cfg.m, cfg.n, cfg.k)
       IN /\ res' = [op |-> "CreateBoard", err |-> r.err, kind |-> r.kind]
          /\ board' = IF r.kind = "MNKBoard" THEN EmptyBoard(cfg) ELSE <<>>
          /\ pc' = IF r.err = "none" THEN "newRound" ELSE "exit"
    /\ obs' = [op |-> "CreateBoard"]
    /\ UNCHANGED <<sysVars, cfg, bb, round, turn, startTurn, pending, values,
                   iterations, prev, goLeft, outcome>>

\* One conversion of board.GetState() by the callee the driver has reached,
\* and where the driver stands afterwards.
Converts(op, skipped, then) ==
    LET ok == skipped \/ AssertsMNKState(GetStateType(res.kind))
    IN /\ pc' = IF ok THEN then ELSE "panic"
       /\ obs' = [op |-> op, ok |-> ok, converted |-> ~skipped]
       /\ UNCHANGED <<sysVars, cfg, board, bb, res, round, turn, startTurn,
                      pending, values, iterations, prev, goLeft, outcome>>

\* newRound: board.Reset() and display.ShowBoard(board.GetState()), which
\* returns before its conversion when the display is off.
AutoShowBoard ==
    /\ pc = "newRound"
    /\ Converts("ShowBoard", cfg.noDisplay, "loop")

\* newRound's loop: agents[turn].FetchMove(board.GetState(), ...) of an
\* RLAgent. Act and EvaluateAction, which follow, take the action only.
AutoFetchMove ==
    /\ pc = "loop"
    /\ Converts("FetchMove", FALSE, "gameover")

\* The end of the round: agent.GameOver(board.GetState()) of an RLAgent.
AutoGameOver ==
    /\ pc = "gameover"
    /\ Converts("GameOver", FALSE, "return")

NextAuto ==
    \/ AutoCreateBoard
    \/ AutoShowBoard
    \/ AutoFetchMove
    \/ AutoGameOver

SpecAuto == InitAuto /\ [][NextAuto]_vars

-----------------------------------------------------------------------------

(* SpecIterate: the loop of TestFindNonEmptyPosition and AnalyzeMNKState,  *)
(* which calls FindNonEmptyPosition from offset (0, 0) and then from each  *)
(* position it returned until it returns an error, on every small board.   *)

\* How many positions the loop is followed for.
MaxCalls == 5

IterateConfigs == { <<2, 2, 2>>, <<3, 1, 2>>, <<1, 3, 2>> }

\* FindNonEmptyPosition's two loops from row i, column j on: the first
\* cell with state[i][j] > 0, or the error with the zero x and y.
RECURSIVE FindFrom(_, _, _, _)
FindFrom(c, state, i, j) ==
    IF i >= c.n THEN [x |-> 0, y |-> 0, err |-> TRUE]
    ELSE IF j >= c.m THEN FindFrom(c, state, i + 1, 0)
    ELSE IF state[i][j] > 0 THEN [x |-> j, y |-> i, err |-> FALSE]
    ELSE FindFrom(c, state, i, j + 1)

\* FindNonEmptyPosition(state, offsetX, offsetY): in the offset row the
\* scan starts after offsetX when offsetX is not 0, at column 0 otherwise.
FindNonEmptyPosition(c, state, offsetX, offsetY) ==
    FindFrom(c, state, offsetY, IF offsetX # 0 THEN offsetX + 1 ELSE 0)

\* Any board of one of the sizes, before the loop's first call.
InitIterate ==
    /\ \E t \in IterateConfigs : cfg = Config(t)
    /\ board \in [Ys(cfg) -> [Xs(cfg) -> 0 .. 2]]
    /\ bb = EmptyBitboard
    /\ res = [op |-> "none", x |-> 0, y |-> 0, err |-> FALSE, found |-> <<>>]
    /\ GameIdle

\* One turn of the loop: the call with the last position as offset; a
\* position returned is appended to the list, an error ends the loop.
IterateCall ==
    /\ ~res.err
    /\ Len(res.found) < MaxCalls
    /\ LET r == FindNonEmptyPosition(cfg, board, res.x, res.y)
       IN res' = [op |-> "FindNonEmptyPosition", x |-> r.x, y |-> r.y,
                  err |-> r.err,
                  found |-> IF r.err THEN res.found
                            ELSE Append(res.found, [x |-> r.x, y |-> r.y])]
    /\ UNCHANGED <<sysVars, cfg, board, bb, gameVars>>

NextIterate == IterateCall

SpecIterate == InitIterate /\ [][NextIterate]_vars

-----------------------------------------------------------------------------

(* SpecBuffer: an ExperienceBuffer of each small capacity under Add and    *)
(* Clear. mem is the buffer; res.added lists what was added since the      *)
(* buffer was created or last cleared.                                     *)

MaxCapacity == 3

\* How many Adds in a row are followed.
MaxAdds == 7

\* The experiences added (any two that differ), and the zero Experience
\* make() fills the slots with.
Experiences == {1, 2}
NoExperience == 0

\* NewExperienceBuffer(capacity); slot i of the Go slice is Buffer[i + 1].
NewExperienceBuffer(capacity) ==
    [at |-> "buffer",
     Buffer |-> [i \in 1 .. capacity |-> NoExperience],
     Capacity |-> capacity,
     Size |-> 0,
     Index |-> 0]

\* Add with the index advanced before the store instead of after it.
AddAfterAdvance(eb, exp) ==
    [eb EXCEPT !.Buffer[((eb.Index + 1) % eb.Capacity) + 1] = exp,
               !.Index = (eb.Index + 1) % eb.Capacity,
               !.Size = IF eb.Size < eb.Capacity THEN eb.Size + 1
                        ELSE eb.Size]

\* ExperienceBuffer.Add.
Add(eb, exp) ==
    [eb EXCEPT !.Buffer[eb.Index + 1] = exp,
               !.Index = (eb.Index + 1) % eb.Capacity,
               !.Size = IF eb.Size < eb.Capacity THEN eb.Size + 1
                        ELSE eb.Size]

\* ExperienceBuffer.Clear: the slots keep what they held.
Clear(eb) == [eb EXCEPT !.Size = 0, !.Index = 0]

InitBuffer ==
    /\ \E capacity \in 1 .. MaxCapacity : mem = NewExperienceBuffer(capacity)
    /\ res = [op |-> "NewExperienceBuffer", added |-> <<>>, cleared |-> FALSE]
    /\ terminateFlag = FALSE
    /\ modelFile = [written |-> FALSE]
    /\ twin = [at |-> "none"]
    /\ cfg = [m |-> 0, n |-> 0, k |-> 0]
    /\ board = <<>>
    /\ bb = EmptyBitboard
    /\ pc = "idle"
    /\ round = 0
    /\ turn = 0
    /\ startTurn = 0
    /\ pending = Sentinel
    /\ values = <<>>
    /\ iterations = 0
    /\ prev = <<>>
    /\ goLeft = {}
    /\ outcome = 0
    /\ obs = [op |-> "none"]

BufferAdd ==
    /\ Len(res.added) < MaxAdds
    /\ \E exp \in Experiences :
          /\ mem' = Add(mem, exp)
          /\ res' = [res EXCEPT !.op = "Add", !.added = Append(@, exp)]
    /\ UNCHANGED <<terminateFlag, modelFile, twin, cfg, board, bb, gameVars>>

BufferClear ==
    /\ res.op = "Add"
    /\ mem' = Clear(mem)
    /\ res' = [op |-> "Clear", added |-> <<>>, cleared |-> TRUE]
    /\ UNCHANGED <<terminateFlag, modelFile, twin, cfg, board, bb, gameVars>>

NextBuffer == BufferAdd \/ BufferClear

SpecBuffer == InitBuffer /\ [][NextBuffer]_vars

-----------------------------------------------------------------------------

(* Properties of the learning agent and the driver, over Spec.             *)

\* agentID has no mark on board b: it has not moved in the current round.
NoMarks(c, b, agentID) ==
    \A y \in Ys(c), x \in Xs(c) : b[y][x] # agentID

\* C7: at GameOver the value a learning agent bootstraps from is the one
\* derived from the final board's Evaluate(): +1 if this agent won, -0.5 for
\* a draw, -1 if it lost, for the last mover and for the other agent alike.
C7_GameOverBootstrapsFromEvaluate ==
    obs.op = "GameOver" =>
        obs.qMax = (CASE Evaluate(cfg, board) = obs.agent -> <<1, 1>>
                      [] Evaluate(cfg, board) = -1 -> <<-1, 2>>
                      [] OTHER -> <<-1, 1>>)

\* C8: a FetchMove or GameOver of an agent holding a previous transition
\* sets the entry under that transition's key to Q + alpha * (r_prev +
\* gamma * Qnext - Q), with Q the entry's prior value and Qnext the value the
\* handler obtained for the chosen action or the sentinel, and changes no
\* other entry that existed before.
C8_TDUpdateOnPreviousKey ==
    [][(obs'.op \in {"FetchMove", "GameOver"} /\ obs'.learned) =>
          LET id == obs'.agent
              key == marshallState(cfg, id, prev[id].state, prev[id].action)
              Q == values[key]
              target == FAdd(prev[id].reward, FMul(<<4, 5>>, obs'.qMax))
          IN /\ key \in DOMAIN values
             /\ values'[key] = FAdd(Q, FMul(<<1, 5>>, FSub(target, Q)))
             /\ \A q \in DOMAIN values \ {key} : values'[q] = values[q]]_vars

\* The update of the example: Q = 0, r = 0, Qnext = 1 leaves 0.16 = 4/25
\* under the previous transition's key.
C8_Witness ==
    /\ obs.op \in {"FetchMove", "GameOver"}
    /\ obs.learned
    /\ obs.old = Zero
    /\ obs.reward = Zero
    /\ obs.qMax = One
    /\ values[obs.key] = <<4, 25>>

\* C9: the first FetchMove of an agent in a round (it has no mark on the
\* board yet) finds its previous-transition buffer empty and changes no
\* value of the table, whatever way the round before ended.
C9_FirstFetchMoveLearnsNothing ==
    [][(obs'.op = "FetchMove" /\ NoMarks(cfg, board, obs'.agent)) =>
          /\ DOMAIN prev[obs'.agent].state = {}
          /\ \A q \in DOMAIN values : values'[q] = values[q]]_vars

\* C10: when newRound returns, however the round ended, each of the two
\* agents has received exactly one GameOver in it: GameOver alone adds one to
\* Knowledge.Iterations and empties the agent's buffer, so after round
\* number round the count is twice that and both buffers are empty.
C10_EveryRoundEndNotifiesBothAgents ==
    pc = "return" =>
        /\ iterations = 2 * round
        /\ \A id \in Players : DOMAIN prev[id].state = {}

\* The number of cells on which boards b1 and b2 differ.
Changed(c, b1, b2) ==
    Cardinality({ a \in Cells(c) : b1[a.y][a.x] # b2[a.y][a.x] })

\* C11: within a round the board changes only through the driver's Act
\* (between rounds, by Reset); a successful Act puts exactly one mark, the
\* turn player's, on a cell that was empty, after which either the round
\* ends or the other player is to move; a turn in which FetchMove or Act
\* returns an error leaves the board and the player to move as they were.
C11_BoardChangesOnlyThroughAct ==
    [][/\ board' # board => obs'.op \in {"Act", "Reset"}
       /\ turn' # turn => obs'.op \in {"Act", "Reset"}
       /\ obs'.op = "Act" =>
             /\ Changed(cfg, board, board') = 1
             /\ board[pending.y][pending.x] = 0
             /\ board'[pending.y][pending.x] = turn
             /\ \/ pc' = "gameover" /\ turn' = turn
                \/ pc' = "loop" /\ turn' \in Players \ {turn}
       /\ obs'.op \in {"FetchError", "ActError"} =>
             /\ board' = board
             /\ turn' = turn]_vars

\* Act has just rejected an action in the middle of a round: the board
\* already holds marks of both players and the same player is still to move.
C11_Witness ==
    /\ obs.op = "ActError"
    /\ pc = "loop"
    /\ obs.agent = turn
    /\ \A id \in Players : ~NoMarks(cfg, board, id)

\* C12: after each successful Act the driver ends the round with the mover
\* as winner exactly when the board then holds a contiguous run of at least
\* k of the mover's marks.
C12_WinnerIffContiguousRun ==
    obs.op = "Act" =>
        ((pc = "gameover" /\ outcome = obs.agent)
            <=> HasRun(cfg, board, obs.agent))

\* C15: once both training agents are built, both read and write one and
\* the same map, and it is the Knowledge's Values, the map that is written
\* to the model file; so what is saved holds the entries of both agents,
\* also when the run started with Iterations = 0.
C15_AgentsShareTheSavedTable ==
    mem.at \in {"run", "saved"} =>
        /\ \A id \in Players : TableOf(mem, id) = mem.Values
        /\ mem.at = "saved" =>
              \A id \in Players :
                  modelFile.Values = mem.heap[TableOf(mem, id)]

\* Cell a comes before cell b in row-major order.
RowMajorBefore(a, b) ==
    a.y < b.y \/ (a.y = b.y /\ a.x < b.x)

\* C16: in its exploit branch FetchMove returns an empty cell of the given
\* state whose looked-up value, the qMax it learns from, is the greatest
\* over all empty cells, and every empty cell before it in row-major order
\* has a strictly smaller value, whatever the sign of the values.
C16_ExploitReturnsFirstMaximum ==
    [][(pc = "loop" /\ obs'.op = "FetchMove" /\ obs'.greedy) =>
          /\ pending' \in EmptyCells(cfg, board)
          /\ obs'.qMax = lookup(cfg, board, values, turn, board, pending').val
          /\ \A a \in EmptyCells(cfg, board) :
                LET v == lookup(cfg, board, values, turn, board, a).val
                IN /\ ~FGreater(v, obs'.qMax)
                   /\ RowMajorBefore(a, pending') => FGreater(obs'.qMax, v)]_vars

\* An exploit step whose greatest value is negative and is shared by the
\* cell returned and a later empty cell.
C16_Witness ==
    /\ obs.op = "FetchMove"
    /\ obs.greedy
    /\ pc = "act"
    /\ FGreater(Zero, obs.qMax)
    /\ \E a \in EmptyCells(cfg, board) \ {pending} :
          /\ RowMajorBefore(pending, a)
          /\ lookup(cfg, board, values, turn, board, a).val = obs.qMax

\* The one-step estimate for agent id and action a on the live board b.
Estimate(c, b, id, a) ==
    IF a = Sentinel
    THEN LET e == Evaluate(c, b)
         IN IF e = id THEN One
            ELSE IF e = 0 THEN Zero
            ELSE IF e = -1 THEN MinusHalf
            ELSE MinusOne
    ELSE LET e == EvaluateAction(c, b, id, a)
         IN IF e = 1 THEN One ELSE IF e = -1 THEN MinusHalf ELSE Zero

\* Boards the environment may hold when agent id looks a up again: the
\* empty one of the next round, and the present one with a played.
LaterBoards(id, a) ==
    {EmptyBoard(cfg)}
        \cup (IF a \in Cells(cfg) THEN {Place(board, id, a)} ELSE {})

\* What C17 says of agent id's lookup of action a in the present state.
LookupCaches(id, a) ==
    LET key == marshallState(cfg, id, board, a)
        l == lookup(cfg, board, values, id, board, a)
    IN /\ key \notin DOMAIN values =>
             /\ l.val = Estimate(cfg, board, id, a)
             /\ DOMAIN l.tbl = DOMAIN values \cup {key}
             /\ l.tbl[key] = l.val
             /\ \A q \in DOMAIN values : l.tbl[q] = values[q]
       /\ key \in DOMAIN values =>
             l = [val |-> values[key], tbl |-> values]
       /\ \A b2 \in LaterBoards(id, a) :
             lookup(cfg, b2, l.tbl, id, board, a) =
                 [val |-> l.val, tbl |-> l.tbl]

\* C17: wherever the training run has an agent look up an action (the
\* agent in turn an empty cell at the top of newRound's loop, an agent
\* being notified the sentinel at GameOver): a lookup whose key is absent
\* returns the one-step estimate and stores it under the key, changing
\* nothing else; a lookup whose key is present returns the stored value and
\* leaves the table alone; and a lookup repeated on the table the first one
\* left returns the same value and the same table whatever the environment
\* has become in between (no second evaluation).
C17_LookupCachesOneStepEstimate ==
    /\ pc = "loop" =>
          \A a \in EmptyCells(cfg, board) : LookupCaches(turn, a)
    /\ pc = "gameover" =>
          \A id \in goLeft : LookupCaches(id, Sentinel)

\* FetchMove has just looked up the action it returns and stored +1 for
\* it (the move wins), while another empty cell's key is still absent.
C17_Witness ==
    /\ pc = "act"
    /\ obs.op = "FetchMove"
    /\ pending \in EmptyCells(cfg, board)
    /\ marshallState(cfg, turn, board, pending) \in DOMAIN values
    /\ values[marshallState(cfg, turn, board, pending)] = One
    /\ Estimate(cfg, board, turn, pending) = One
    /\ \E a \in EmptyCells(cfg, board) :
          marshallState(cfg, turn, board, a) \notin DOMAIN values

\* Board b with the two players' marks exchanged.
Swapped(c, b) ==
    [y \in Ys(c) |-> [x \in Xs(c) |->
        IF b[y][x] = 0 THEN 0 ELSE 3 - b[y][x]]]

\* C18: for every board reached and every action (any cell, taken or not,
\* or the sentinel), the key marshallState gives agent 1 is the key it
\* gives agent 2 on the board with the marks exchanged; the key has m*n
\* symbols, and the symbol at the action's cell is "X" whatever the cell
\* holds.
C18_MarshallStateAgentSymmetric ==
    \A a \in Cells(cfg) \cup {Sentinel} :
        /\ marshallState(cfg, 1, board, a)
              = marshallState(cfg, 2, Swapped(cfg, board), a)
        /\ \A id \in Players :
              /\ Len(marshallState(cfg, id, board, a)) = cfg.m * cfg.n
              /\ a \in Cells(cfg) =>
                    marshallState(cfg, id, board, a)[a.y * cfg.m + a.x + 1]
                        = "X"

\* A board holding marks of both players, keyed for agent 1 with the
\* action on a cell of agent 2: that cell reads "X", agent 2's other cells
\* "O".
C18_Witness ==
    /\ res.op = "Act"
    /\ \E a \in Cells(cfg) : \E o \in Cells(cfg) \ {a} :
          /\ board[a.y][a.x] = 2
          /\ board[o.y][o.x] = 2
          /\ \E own \in Cells(cfg) : board[own.y][own.x] = 1
          /\ marshallState(cfg, 1, board, a)[a.y * cfg.m + a.x + 1] = "X"
          /\ marshallState(cfg, 1, board, a)[o.y * cfg.m + o.x + 1] = "O"

\* C13: an agent that keeps returning actions Act rejects is not retried
\* for ever: every rejected Act is eventually followed by the end of the
\* round (the failures escalate into a forced draw).
C13_RejectedActionsEndTheRound ==
    (obs.op = "ActError") ~> (pc = "return")

\* C14: a FetchMove error ends the round as a forced draw, newRound
\* returning 0 without a retry, whichever agent (1 or 2) returned it.
C14_FetchErrorForcesDraw ==
    [][obs'.op = "FetchError" => (pc' = "return" /\ outcome' = 0)]_vars

\* C19: once the SIGINT goroutine has set terminateFlag, the round in
\* progress runs on to its end (train does not return from inside a
\* round), and at the first round boundary after that train returns
\* instead of starting another round.
C19_ReturnsAtFirstBoundaryAfterInterrupt ==
    [][terminateFlag =>
          /\ pc # "return" => pc' # "done"
          /\ (pc = "return" /\ pc' # pc) => pc' = "done"]_vars

\* C20: a training run that ends on an interrupt has written the value
\* table as it stands, every update included, to the model file, with
\* learning saved or not (the training agents update the table in both
\* configurations).
C20_InterruptedRunSavesTheTable ==
    (pc = "done" /\ obs.op = "Terminated") =>
        /\ modelFile.written
        /\ modelFile.Values = values

\* C22: built with the same m, n, k and given the same calls, MNKBitboard
\* and MNKBoard answer alike: every Act returns the same error and reward,
\* and after it Evaluate(), EvaluateAction (for each player and cell) and
\* GetPotentialActions give the same results on both.
C22_BitboardAgreesWithGrid ==
    res.op = "Act" =>
        /\ res.err = res.errB
        /\ res.reward = res.rewardB
        /\ Evaluate(cfg, board) = BitEvaluate(cfg, bb)
        /\ GetPotentialActions(cfg, board) = BitGetPotentialActions(cfg, bb)
        /\ \A p \in Players : \A a \in Cells(cfg) :
              EvaluateAction(cfg, board, p, a)
                  = BitEvaluateAction(cfg, bb, p, a)

\* The cells in which grid b2 differs from grid b1.
CellsChanged(c, b1, b2) == {a \in Cells(c) : b1[a.y][a.x] # b2[a.y][a.x]}

\* C24: an Act(p, a) that returns no error changes exactly one cell, a,
\* from empty to p; every other cell and m, n, k stay as they were. On the
\* grid and on the bitboard.
C24_ActChangesExactlyOneCell ==
    [][(res'.op = "Act" /\ res'.err = "none" /\ res'.errB = "none") =>
          /\ cfg' = cfg
          /\ CellsChanged(cfg, board, board') = {res'.a}
          /\ board[res'.a.y][res'.a.x] = 0
          /\ board'[res'.a.y][res'.a.x] = res'.agent
          /\ CellsChanged(cfg, BitGrid(cfg, bb), BitGrid(cfg, bb')) = {res'.a}
          /\ BitGrid(cfg, bb)[res'.a.y][res'.a.x] = 0
          /\ BitGrid(cfg, bb')[res'.a.y][res'.a.x] = res'.agent]_vars

\* An Act has just placed a mark on a board with more than one row that
\* already held marks of both players.
C24_Witness ==
    /\ res.op = "Act" /\ res.err = "none" /\ res.errB = "none"
    /\ cfg.n > 1
    /\ board[res.a.y][res.a.x] = res.agent
    /\ \A p \in Players : \E a \in Cells(cfg) :
          a # res.a /\ board[a.y][a.x] = p /\ BitGrid(cfg, bb)[a.y][a.x] = p

\* List l holds exactly the empty cells of grid b, each once, in row-major
\* order (ascending y, then ascending x).
ListsEmptyCells(c, b, l) ==
    /\ { l[i] : i \in 1 .. Len(l) } = EmptyCells(c, b)
    /\ Len(l) = Cardinality(EmptyCells(c, b))
    /\ \A i \in 1 .. Len(l) - 1 : RowMajorBefore(l[i], l[i + 1])

\* Agent ids a caller may pass: the two players and ids no player has.
AgentIDs == {-1, 0, 1, 2, 3}

\* C26: GetPotentialActions returns exactly the empty cells, each once, in
\* row-major order, whatever agent id it is called with; on the grid and
\* on the bitboard.
C26_PotentialActionsAreTheEmptyCells ==
    \A agentID \in AgentIDs :
        /\ ListsEmptyCells(cfg, board,
                           GetPotentialActionsFor(cfg, board, agentID))
        /\ ListsEmptyCells(cfg, BitGrid(cfg, bb),
                           BitGetPotentialActionsFor(cfg, bb, agentID))

\* A board of several rows and columns with marks of both players and
\* empty cells left in more than one row and more than one column.
C26_Witness ==
    /\ res.op = "Act"
    /\ \A p \in Players : \E a \in Cells(cfg) : board[a.y][a.x] = p
    /\ \E a, b \in EmptyCells(cfg, board) : a.x # b.x /\ a.y # b.y
    /\ Len(GetPotentialActionsFor(cfg, board, 1)) >= 3

\* C27: constructing a board returns an error when k is greater than both
\* m and n, and succeeds when k is at most m or at most n (k = m and k = n
\* included), through either constructor and through the factory with any
\* of its three board types.
C27_ConstructionFailsIffKExceedsBoth ==
    (res.op \in {"NewMNKBoard", "NewMNKBitboard", "CreateBoard"}
     /\ res.boardType \in BoardTypes) =>
        ((res.err # "none") <=> (res.k > res.m /\ res.k > res.n))

\* C30: the key set of the value table never shrinks: no step of the run
\* (FetchMove, GameOver, and the lookups and learn inside them) removes a
\* key, and a key that was absent is in the table after the first lookup
\* of it (the action FetchMove chose, every empty cell when it took the
\* exploit branch, the sentinel in GameOver).
C30_KeysNeverRemoved ==
    [][/\ DOMAIN values \subseteq DOMAIN values'
       /\ (pc = "loop" /\ obs'.op = "FetchMove") =>
             /\ marshallState(cfg, turn, board, pending') \in DOMAIN values'
             /\ obs'.greedy =>
                   \A a \in EmptyCells(cfg, board) :
                       marshallState(cfg, turn, board, a) \in DOMAIN values'
       /\ (pc = "gameover" /\ obs'.op = "GameOver") =>
             marshallState(cfg, obs'.agent, board, Sentinel)
                 \in DOMAIN values']_vars

\* In a later round, on a table that already holds keys of the round
\* before, a FetchMove has just looked up a key and learnt.
C30_Witness ==
    /\ round = 2
    /\ obs.op = "FetchMove" /\ obs.learned
    /\ Cardinality(DOMAIN values) >= 6

\* C29: Knowledge.Iterations changes in no step but an RLAgent's GameOver,
\* and every such GameOver, of a learner or of an agent built with
\* learning off, clears that agent's previous-transition buffer and adds
\* exactly one to the counter.
C29_IterationsCountGameOvers ==
    [][/\ iterations' # iterations =>
             (pc = "gameover" /\ obs'.op = "GameOver")
       /\ (pc = "gameover" /\ obs'.op = "GameOver") =>
             /\ iterations' = iterations + 1
             /\ prev'[obs'.agent] = NoPrev]_vars

\* With learning off, the RL agent has been told of the end of the second
\* round.
C29_Witness ==
    /\ cfg.allNoLearn
    /\ obs.op = "GameOver" /\ ~obs.learning
    /\ round = 2
    /\ iterations = 2
    /\ prev[Machine] = NoPrev

\* C23: Evaluate and EvaluateAction leave the board as it was: the grid's
\* cells, and the bitboard's player bitmaps, move count and last-move
\* record, are the same after the call as before it, whichever player and
\* cell (empty or taken) EvaluateAction was asked about.
C23_EvaluatorsLeaveTheBoardUnchanged ==
    [][(cfg.build = "game" /\ res'.op \in {"Evaluate", "EvaluateAction"}) =>
          /\ board' = board
          /\ bb'.bits = bb.bits
          /\ bb'.moveCount = bb.moveCount
          /\ bb'.lastMove = bb.lastMove
          /\ cfg' = cfg]_vars

\* EvaluateAction has just been asked about a cell the other player holds
\* and answered for both boards.
C23_Witness ==
    /\ cfg.build = "game"
    /\ res.op = "EvaluateAction"
    /\ board[res.a.y][res.a.x] \in Players \ {res.agent}
    /\ Pos(cfg, res.a.x, res.a.y) \in bb.bits[board[res.a.y][res.a.x]]
    /\ Pos(cfg, res.a.x, res.a.y) \notin bb.bits[res.agent]
    /\ bb.moveCount >= 2

\* C28: after Reset every cell of the board is empty and m, n, k are what
\* they were, whatever the board held; the next Evaluate() returns 0 and
\* GetPotentialActions returns all m*n cells. For each implementation and
\* each build of MNKBoard.
C28_ResetEmptiesTheBoard ==
    [][res'.op = "Reset" =>
          /\ cfg' = cfg
          /\ board' = EmptyBoard(cfg)
          /\ BitGrid(cfg, bb') = EmptyBoard(cfg)
          /\ (IF cfg.build = "main" THEN main_Evaluate(cfg, board')
              ELSE Evaluate(cfg, board')) = 0
          /\ BitEvaluate(cfg, bb') = 0
          /\ Len(IF cfg.build = "main" THEN main_GetActions(cfg, board')
                 ELSE GetPotentialActions(cfg, board')) = cfg.m * cfg.n
          /\ Len(BitGetPotentialActions(cfg, bb')) = cfg.m * cfg.n]_vars

\* C21: Evaluate() depends on the cells alone: two boards of the same
\* implementation and the same m, n, k whose cells are identical give the
\* same Evaluate() result, whatever sequences of Act calls led to them
\* (marks placed after a run of k exists included).
C21_EvaluateDependsOnCellsOnly ==
    /\ board = twin.board =>
          Evaluate(cfg, board) = Evaluate(cfg, twin.board)
    /\ BitGrid(cfg, bb) = BitGrid(cfg, twin.bb) =>
          BitEvaluate(cfg, bb) = BitEvaluate(cfg, twin.bb)

\* C25: two GetState calls with no Act or Reset between them return equal
\* snapshots (and each equals the board), and writing a cell of a
\* returned snapshot changes neither the board nor what GetState, Evaluate
\* or GetPotentialActions return afterwards.
C25_SnapshotsAreIsolatedCopies ==
    [][/\ res'.op = "GetState" =>
             /\ res'.returned = board
             /\ board' = board
             /\ res.last # <<>> => res'.returned = res.last
       /\ res'.op = "Modify" =>
             /\ board' = board
             /\ Deref(Clone(mem'.rows, mem'.grid).rows,
                      Clone(mem'.rows, mem'.grid).snap)
                    = Deref(Clone(mem.rows, mem.grid).rows,
                            Clone(mem.rows, mem.grid).snap)
             /\ Evaluate(cfg, board') = Evaluate(cfg, board)
             /\ GetPotentialActions(cfg, board')
                    = GetPotentialActions(cfg, board)]_vars

\* GetState has just returned a second snapshot of a board with marks,
\* after the caller wrote into the first one, which it still holds.
C25_Witness ==
    /\ res.op = "GetState" /\ res.modified
    /\ Len(mem.snaps) = 2
    /\ \E a \in Cells(cfg) : board[a.y][a.x] # 0
    /\ Deref(mem.rows, mem.snaps[1]) # board
    /\ Deref(mem.rows, mem.snaps[2]) = board

\* C31: in play mode -rl-no-learn switches learning and saving off
\* together. While it is set no step of the RL agent changes a value the
\* table already holds and nothing is written to the model file; while it
\* is not set the RL agent's FetchMove and GameOver run as a learner's and
\* every return of newRound saves the table.
C31_RLNoLearnSwitchesLearningAndSaving ==
    [][/\ cfg.noLearn =>
             /\ \A key \in DOMAIN values : values'[key] = values[key]
             /\ modelFile' = modelFile
       /\ ~cfg.noLearn =>
             /\ obs'.op \in {"FetchMove", "GameOver"} => obs'.learning
             /\ pc = "return" =>
                   modelFile' = SaveToFile(values, iterations)]_vars

\* C32: when LoadFromFile fails at start-up, because the model file does
\* not exist or because it cannot be read, main goes on, and the training
\* run it enters starts with an empty value table and iteration counter 0.
C32_FailedLoadStartsFresh ==
    (mem.at = "main" /\ mem.err \in {"open", "decode"} /\ ~cfg.statusMode) =>
        /\ pc # "done" \/ round = cfg.rounds
        /\ (pc = "train" /\ round = 0) =>
              /\ mem.made
              /\ values = EmptyTable
              /\ iterations = 0

\* The player after p in a two-player game.
Following(p) == IF p = 1 THEN 2 ELSE 1

\* C33: each round is started by the player train holds in its turn
\* variable, and when a round returns that variable becomes the winner if
\* the round was won, and the player following the one who started the
\* round if it was drawn.
C33_WinnerOrNextPlayerStarts ==
    [][/\ obs'.op = "Reset" => turn' = startTurn
       /\ (pc = "return" /\ pc' # "return") =>
             startTurn' = IF outcome # 0 THEN outcome
                          ELSE Following(startTurn)]_vars

\* The number of marks on board b.
Marks(c, b) == Cardinality({ a \in Cells(c) : b[a.y][a.x] # 0 })

C35_FetchMoveReturnsAnEmptyCell ==
    [][/\ obs'.op = "FetchMove" =>
             /\ \E i \in 1 .. Len(GetPotentialActions(cfg, board)) :
                   pending' = GetPotentialActions(cfg, board)[i]
             /\ board[pending'.y][pending'.x] = 0
       /\ (obs.op = "FetchMove" /\ pc = "act") =>
             /\ obs'.op = "Act"
             /\ board'[pending.y][pending.x] = turn]_vars

\* The agent has exploited on a board that holds marks already, and the
\* value table made it pass over the first empty cell.
C35_Witness ==
    /\ obs.op = "FetchMove" /\ obs.greedy
    /\ pc = "act"
    /\ Marks(cfg, board) >= 2
    /\ pending # GetPotentialActions(cfg, board)[1]

\* C36: on a board with k = 1 the first mark placed wins, on the grid and
\* on the bitboard alike: EvaluateAction says 1 for that move, Act returns
\* the reward +1 (two halves), and Evaluate then returns the id of the
\* agent that placed it.
C36_FirstMarkWinsWhenKIsOne ==
    [][(/\ cfg.k = 1
        /\ Marks(cfg, board) = 0
        /\ res'.op = "Act"
        /\ res'.input = "free") =>
          /\ res'.before = 1
          /\ res'.reward = RewardOf(1)
          /\ Evaluate(cfg, board') = res'.agent
          /\ res'.beforeB = 1
          /\ res'.rewardB = RewardOf(1)
          /\ BitEvaluate(cfg, bb') = res'.agent]_vars

\* C37: whatever board CreateBoard(Auto, m, n, k) returns, the State its
\* GetState produces is an MNKState, the type ShowBoard, FetchMove and
\* GameOver convert it to, and no round of the driver ends in the panic of
\* a failed conversion.
C37_AutoBoardStateIsTheGridType ==
    (res.op = "CreateBoard" /\ res.err = "none") =>
        /\ GetStateType(res.kind) = "MNKState"
        /\ pc # "panic"

\* C38: an RL agent built with learning disabled never changes a value
\* the table already holds: after each of its FetchMove and GameOver
\* calls every key that was in the table is still there with the value it
\* had (FetchMove may add keys its lookups did not find).
C38_NonLearnerKeepsStoredValues ==
    [][(cfg.allNoLearn /\ obs'.op \in {"FetchMove", "GameOver"}) =>
          \A key \in DOMAIN values :
              /\ key \in DOMAIN values'
              /\ values'[key] = values[key]]_vars

\* The agent built with learning off has been told of the end of a second
\* round, one it lost, the table holding the entries its lookups added in
\* both rounds.
C38_Witness ==
    /\ cfg.allNoLearn
    /\ obs.op = "GameOver" /\ ~obs.learning
    /\ outcome = Human
    /\ round = 2
    /\ Cardinality(DOMAIN values) >= 4

\* The non-empty cells of b from position pos on, row by row.
RECURSIVE NonEmptyFrom(_, _, _)
NonEmptyFrom(c, b, pos) ==
    IF pos >= c.m * c.n THEN <<>>
    ELSE LET y == pos \div c.m
             x == pos % c.m
         IN (IF b[y][x] # 0 THEN <<[x |-> x, y |-> y]>> ELSE <<>>)
            \o NonEmptyFrom(c, b, pos + 1)

\* C39: the positions FindNonEmptyPosition returns, called from (0, 0) and
\* then from each position it returned, are the board's non-empty cells in
\* row-major order, each once: at any moment the list returned so far is
\* the beginning of that order, and when the call returns its error the
\* list is all of it.
C39_IterationVisitsEachNonEmptyCellOnce ==
    res.op = "FindNonEmptyPosition" =>
        LET all == NonEmptyFrom(cfg, board, 0)
        IN /\ Len(res.found) <= Len(all)
           /\ res.found = SubSeq(all, 1, Len(res.found))
           /\ res.err => res.found = all

\* How many of the elements of sequence s are e.
Occurrences(s, e) == Cardinality({ i \in 1 .. Len(s) : s[i] = e })

\* C40: after n Adds since the buffer was created or last cleared, Size is
\* min(n, Capacity), Index is n mod Capacity, and the slots below Size
\* hold exactly the min(n, Capacity) experiences added last (each as often
\* as it occurs among them).
C40_BufferHoldsTheMostRecent ==
    LET n == Len(res.added)
        kept == Min(n, mem.Capacity)
    IN /\ mem.Size = kept
       /\ mem.Index = n % mem.Capacity
       /\ \A e \in Experiences :
             Occurrences(SubSeq(mem.Buffer, 1, mem.Size), e)
                 = Occurrences(SubSeq(res.added, n - kept + 1, n), e)

\* A buffer of capacity above one, cleared once, has since wrapped around:
\* more was added than it holds, and an older experience was overwritten
\* by a different one.
C40_Witness ==
    /\ res.cleared
    /\ mem.Capacity >= 2
    /\ Len(res.added) > mem.Capacity
    /\ mem.Index # 0
    /\ res.added[1] # mem.Buffer[1]

====
